---------------------------- MODULE Spec2Model ----------------------------
(***************************************************************************)
(* Business health check: sector-aware 4-dimension scoring (scoringV2.ts), *)
(* coherence warnings (warnings.ts), decision engine (decisionEngine.ts)   *)
(* and sector validation (sectorValidation.ts).                            *)
(*                                                                         *)
(* Number conventions of the model                                         *)
(*   - percentages are integers (68 is 68%); a "ratio" threshold of the    *)
(*     benchmark table (0.55) is held as its percentage (55), so that      *)
(*     pct / 100 >= 0.55 is pct >= 55;                                     *)
(*   - amounts are in thousands of euros (every ca_etp threshold of the    *)
(*     table is a multiple of 1000); fte is in tenths (4.5 is 45);         *)
(*   - a score computed inside computeScoresV2 is an exact rational        *)
(*     [n, d]; a score returned in Scores is in tenths (85.3 is 853);      *)
(*   - an optional property (x?: T) is <<>> when undefined, <<v>> when set.*)
(*   - an accented letter of a sector name is written letter + mark        *)
(*     ("Ve'te'rinaire" is the table key with two acute accents).          *)
(***************************************************************************)
EXTENDS Integers, Sequences, FiniteSets, TLC

VARIABLES
  formData,      \* AuditForm: the AuditDataV2 record being edited
  edits,         \* number of form edits made so far
  phase,         \* "form" while editing, "done" once an engine has run
  threw,         \* TRUE when the engine call raised (benchmark lookup error)
  scores,        \* <<>> or <<Scores>>: result of computeScoresV2
  scoresArg,     \* <<>> or <<Scores>>: the scores handed to computeDecisionOutput
  warnings,      \* sequence of AuditWarning: result of getAuditWarnings
  decision,      \* <<>> or <<DecisionOutput>>: result of computeDecisionOutput
  rawValue,      \* <<>> (null/undefined) or <<text>>: input of validateAndMapSector
  sectorResult,  \* <<>> or <<SectorValidationResult>>
  lookup,        \* <<>> or <<[secteur, variant]>>: arguments of getBenchmarks
  lookupResult,  \* <<>> or <<[outcome, metrics]>>: what getBenchmarks did
  simulation,    \* <<>> or <<[type, data, deltas]>>: arguments of runSimulation
  simResult,     \* <<>> or <<[value]>>: value is <<>> (null) or <<SimulationResult>>
  auditState,    \* AuditProvider: the AuditState held by useState
  calls,         \* number of context operations called so far
  importInput,   \* <<>> or <<document>>: the parsed JSON / Excel import
  importResult,  \* <<>> or <<ImportValidationResult>>
  moduleProps,   \* SimulationModule: <<>> before mount, else <<[auditData, scores]>>
  prioritized,   \* SimulationModule: prioritizedScenarios
  results,       \* SimulationModule: the results held by useState
  requests,      \* the report requests in flight: sequence of "download" / "email"
  importHistory, \* localStorage audit_import_history: sequence of [hash, timestamp]
  panels,        \* state of ImportJsonPanel and ImportExcelPanel
  now            \* Date.now(), in ticks

benchVars == <<lookup, lookupResult>>

simVars == <<simulation, simResult>>

contextVars == <<auditState, calls>>

importVars == <<importInput, importResult>>

moduleVars == <<moduleProps, prioritized, results>>

historyVars == <<importHistory, panels>>

\* the variables of the simulation module, the report requests, the import
\* panels and the clock
uiVars == <<moduleVars, requests, historyVars, now>>

\* the variables of the benchmark lookup, the simulation engine, the audit
\* context and the import layer
laterVars == <<benchVars, simVars, contextVars, importVars, uiVars>>

vars == <<formData, edits, phase, threw, scores, scoresArg, warnings, decision,
          rawValue, sectorResult, laterVars>>

-----------------------------------------------------------------------------
(* Optional values *)

undefined == <<>>

Some(v) == <<v>>

IsDefined(o) == o # <<>>

Get(o) == o[1]

\* a ?? b
Coalesce(o, b) == IF o # <<>> THEN o[1] ELSE b

-----------------------------------------------------------------------------
(* Exact arithmetic on the JavaScript numbers of the scoring engine *)

Abs(x) == IF x < 0 THEN -x ELSE x

RECURSIVE GCD(_, _)
GCD(a, b) == IF b = 0 THEN a ELSE GCD(b, a % b)

\* the rational n/d (d > 0) in lowest terms
Frac(n, d) ==
  LET g == GCD(Abs(n), d)
  IN  IF n = 0 THEN [n |-> 0, d |-> 1] ELSE [n |-> n \div g, d |-> d \div g]

RInt(k) == [n |-> k, d |-> 1]

LCM(a, b) == (a \div GCD(a, b)) * b

RAdd(x, y) ==
  LET l == LCM(x.d, y.d)
  IN  Frac(x.n * (l \div x.d) + y.n * (l \div y.d), l)

RSub(x, y) == RAdd(x, [n |-> -y.n, d |-> y.d])

\* x * k for an integer k
RScale(x, k) ==
  LET g == GCD(Abs(k), x.d)
  IN  Frac(x.n * (k \div g), x.d \div g)

\* x / k for an integer k > 0
RDiv(x, k) ==
  LET g == GCD(Abs(x.n), k)
  IN  IF x.n = 0 THEN RInt(0) ELSE Frac(x.n \div g, x.d * (k \div g))

RLe(x, y) ==
  LET l == LCM(x.d, y.d)
  IN  x.n * (l \div x.d) <= y.n * (l \div y.d)

RLt(x, y) == ~RLe(y, x)

RMax(x, y) == IF RLe(x, y) THEN y ELSE x

RMin(x, y) == IF RLe(x, y) THEN x ELSE y

\* Math.round(x * 10): the nearest integer number of tenths, halves going up
RoundTenths(x) == (20 * x.n + x.d) \div (2 * x.d)

-----------------------------------------------------------------------------
(* benchmarks.ts *)

PARAM_SECTEUR ==
  <<
  [name |-> "Ve'te'rinaire", default_variant |-> "veto_standard", variants |-> <<
      [id |-> "veto_standard", metrics |-> [
          marge_brute |-> [unit |-> "ratio", thresholds |-> [crit |-> 55, bon |-> 70, excellent |-> 75]],
          ca_etp |-> [unit |-> "amount", thresholds |-> [crit |-> 70, bon |-> 100, excellent |-> 130]],
          charges_rh |-> [unit |-> "ratio_inverse", thresholds |-> [crit |-> 70, bon |-> 55, excellent |-> 50]],
          digital_pct |-> [unit |-> "percentage", thresholds |-> [crit |-> 30, bon |-> 80, excellent |-> 95]],
          fidelisation |-> [unit |-> "percentage", thresholds |-> [crit |-> 60, bon |-> 85, excellent |-> 92]]]],
      [id |-> "veto_rurale", metrics |-> [
          marge_brute |-> [unit |-> "ratio", thresholds |-> [crit |-> 50, bon |-> 65, excellent |-> 72]],
          ca_etp |-> [unit |-> "amount", thresholds |-> [crit |-> 60, bon |-> 85, excellent |-> 110]],
          charges_rh |-> [unit |-> "ratio_inverse", thresholds |-> [crit |-> 65, bon |-> 52, excellent |-> 45]],
          digital_pct |-> [unit |-> "percentage", thresholds |-> [crit |-> 20, bon |-> 60, excellent |-> 80]],
          fidelisation |-> [unit |-> "percentage", thresholds |-> [crit |-> 65, bon |-> 88, excellent |-> 95]]]]>>],
  [name |-> "Clinique Ve'te'rinaire", default_variant |-> "clinique_standard", variants |-> <<
      [id |-> "clinique_standard", metrics |-> [
          marge_brute |-> [unit |-> "ratio", thresholds |-> [crit |-> 55, bon |-> 70, excellent |-> 78]],
          ca_etp |-> [unit |-> "amount", thresholds |-> [crit |-> 80, bon |-> 110, excellent |-> 140]],
          charges_rh |-> [unit |-> "ratio_inverse", thresholds |-> [crit |-> 65, bon |-> 52, excellent |-> 48]],
          digital_pct |-> [unit |-> "percentage", thresholds |-> [crit |-> 40, bon |-> 85, excellent |-> 95]],
          fidelisation |-> [unit |-> "percentage", thresholds |-> [crit |-> 65, bon |-> 88, excellent |-> 94]]]]>>],
  [name |-> "Oste'opathe", default_variant |-> "osteo_standard", variants |-> <<
      [id |-> "osteo_standard", metrics |-> [
          marge_brute |-> [unit |-> "ratio", thresholds |-> [crit |-> 70, bon |-> 85, excellent |-> 90]],
          ca_etp |-> [unit |-> "amount", thresholds |-> [crit |-> 50, bon |-> 75, excellent |-> 100]],
          charges_rh |-> [unit |-> "ratio_inverse", thresholds |-> [crit |-> 30, bon |-> 20, excellent |-> 15]],
          digital_pct |-> [unit |-> "percentage", thresholds |-> [crit |-> 40, bon |-> 75, excellent |-> 90]],
          fidelisation |-> [unit |-> "percentage", thresholds |-> [crit |-> 55, bon |-> 75, excellent |-> 85]]]]>>],
  [name |-> "Kine'sithe'rapeute", default_variant |-> "kine_standard", variants |-> <<
      [id |-> "kine_standard", metrics |-> [
          marge_brute |-> [unit |-> "ratio", thresholds |-> [crit |-> 65, bon |-> 80, excellent |-> 88]],
          ca_etp |-> [unit |-> "amount", thresholds |-> [crit |-> 60, bon |-> 85, excellent |-> 110]],
          charges_rh |-> [unit |-> "ratio_inverse", thresholds |-> [crit |-> 35, bon |-> 25, excellent |-> 18]],
          digital_pct |-> [unit |-> "percentage", thresholds |-> [crit |-> 35, bon |-> 70, excellent |-> 85]],
          fidelisation |-> [unit |-> "percentage", thresholds |-> [crit |-> 60, bon |-> 80, excellent |-> 90]]]]>>],
  [name |-> "The'rapeute / Bien-e^tre", default_variant |-> "therapeute_standard", variants |-> <<
      [id |-> "therapeute_standard", metrics |-> [
          marge_brute |-> [unit |-> "ratio", thresholds |-> [crit |-> 70, bon |-> 85, excellent |-> 92]],
          ca_etp |-> [unit |-> "amount", thresholds |-> [crit |-> 40, bon |-> 60, excellent |-> 85]],
          charges_rh |-> [unit |-> "ratio_inverse", thresholds |-> [crit |-> 25, bon |-> 15, excellent |-> 10]],
          digital_pct |-> [unit |-> "percentage", thresholds |-> [crit |-> 50, bon |-> 80, excellent |-> 92]],
          fidelisation |-> [unit |-> "percentage", thresholds |-> [crit |-> 50, bon |-> 70, excellent |-> 82]]]]>>],
  [name |-> "Sante' Libe'rale (autre)", default_variant |-> "sante_standard", variants |-> <<
      [id |-> "sante_standard", metrics |-> [
          marge_brute |-> [unit |-> "ratio", thresholds |-> [crit |-> 60, bon |-> 75, excellent |-> 85]],
          ca_etp |-> [unit |-> "amount", thresholds |-> [crit |-> 70, bon |-> 100, excellent |-> 130]],
          charges_rh |-> [unit |-> "ratio_inverse", thresholds |-> [crit |-> 40, bon |-> 30, excellent |-> 22]],
          digital_pct |-> [unit |-> "percentage", thresholds |-> [crit |-> 40, bon |-> 75, excellent |-> 90]],
          fidelisation |-> [unit |-> "percentage", thresholds |-> [crit |-> 60, bon |-> 80, excellent |-> 90]]]]>>],
  [name |-> "Restauration", default_variant |-> "resto_traditionnel", variants |-> <<
      [id |-> "resto_traditionnel", metrics |-> [
          marge_brute |-> [unit |-> "ratio", thresholds |-> [crit |-> 60, bon |-> 72, excellent |-> 78]],
          ca_etp |-> [unit |-> "amount", thresholds |-> [crit |-> 45, bon |-> 65, excellent |-> 85]],
          charges_rh |-> [unit |-> "ratio_inverse", thresholds |-> [crit |-> 45, bon |-> 35, excellent |-> 30]],
          digital_pct |-> [unit |-> "percentage", thresholds |-> [crit |-> 40, bon |-> 75, excellent |-> 90]],
          fidelisation |-> [unit |-> "percentage", thresholds |-> [crit |-> 50, bon |-> 75, excellent |-> 85]]]],
      [id |-> "resto_rapide", metrics |-> [
          marge_brute |-> [unit |-> "ratio", thresholds |-> [crit |-> 55, bon |-> 68, excellent |-> 75]],
          ca_etp |-> [unit |-> "amount", thresholds |-> [crit |-> 55, bon |-> 80, excellent |-> 100]],
          charges_rh |-> [unit |-> "ratio_inverse", thresholds |-> [crit |-> 40, bon |-> 30, excellent |-> 25]],
          digital_pct |-> [unit |-> "percentage", thresholds |-> [crit |-> 60, bon |-> 85, excellent |-> 98]],
          fidelisation |-> [unit |-> "percentage", thresholds |-> [crit |-> 35, bon |-> 60, excellent |-> 75]]]]>>],
  [name |-> "Commerce", default_variant |-> "commerce_detail", variants |-> <<
      [id |-> "commerce_detail", metrics |-> [
          marge_brute |-> [unit |-> "ratio", thresholds |-> [crit |-> 35, bon |-> 45, excellent |-> 55]],
          ca_etp |-> [unit |-> "amount", thresholds |-> [crit |-> 80, bon |-> 120, excellent |-> 160]],
          charges_rh |-> [unit |-> "ratio_inverse", thresholds |-> [crit |-> 25, bon |-> 18, excellent |-> 14]],
          digital_pct |-> [unit |-> "percentage", thresholds |-> [crit |-> 50, bon |-> 80, excellent |-> 95]],
          fidelisation |-> [unit |-> "percentage", thresholds |-> [crit |-> 40, bon |-> 65, excellent |-> 80]]]]>>],
  [name |-> "Services", default_variant |-> "services_conseil", variants |-> <<
      [id |-> "services_conseil", metrics |-> [
          marge_brute |-> [unit |-> "ratio", thresholds |-> [crit |-> 65, bon |-> 80, excellent |-> 88]],
          ca_etp |-> [unit |-> "amount", thresholds |-> [crit |-> 100, bon |-> 150, excellent |-> 200]],
          charges_rh |-> [unit |-> "ratio_inverse", thresholds |-> [crit |-> 60, bon |-> 50, excellent |-> 40]],
          digital_pct |-> [unit |-> "percentage", thresholds |-> [crit |-> 70, bon |-> 90, excellent |-> 98]],
          fidelisation |-> [unit |-> "percentage", thresholds |-> [crit |-> 70, bon |-> 88, excellent |-> 95]]]]>>],
  [name |-> "BTP / Construction", default_variant |-> "btp_standard", variants |-> <<
      [id |-> "btp_standard", metrics |-> [
          marge_brute |-> [unit |-> "ratio", thresholds |-> [crit |-> 20, bon |-> 30, excellent |-> 40]],
          ca_etp |-> [unit |-> "amount", thresholds |-> [crit |-> 80, bon |-> 120, excellent |-> 160]],
          charges_rh |-> [unit |-> "ratio_inverse", thresholds |-> [crit |-> 45, bon |-> 35, excellent |-> 28]],
          digital_pct |-> [unit |-> "percentage", thresholds |-> [crit |-> 20, bon |-> 50, excellent |-> 75]],
          fidelisation |-> [unit |-> "percentage", thresholds |-> [crit |-> 50, bon |-> 70, excellent |-> 85]]]]>>],
  [name |-> "Industrie", default_variant |-> "industrie_standard", variants |-> <<
      [id |-> "industrie_standard", metrics |-> [
          marge_brute |-> [unit |-> "ratio", thresholds |-> [crit |-> 25, bon |-> 38, excellent |-> 48]],
          ca_etp |-> [unit |-> "amount", thresholds |-> [crit |-> 90, bon |-> 130, excellent |-> 180]],
          charges_rh |-> [unit |-> "ratio_inverse", thresholds |-> [crit |-> 40, bon |-> 30, excellent |-> 22]],
          digital_pct |-> [unit |-> "percentage", thresholds |-> [crit |-> 30, bon |-> 60, excellent |-> 80]],
          fidelisation |-> [unit |-> "percentage", thresholds |-> [crit |-> 60, bon |-> 80, excellent |-> 90]]]]>>],
  [name |-> "Autre secteur", default_variant |-> "autre_standard", variants |-> <<
      [id |-> "autre_standard", metrics |-> [
          marge_brute |-> [unit |-> "ratio", thresholds |-> [crit |-> 35, bon |-> 50, excellent |-> 65]],
          ca_etp |-> [unit |-> "amount", thresholds |-> [crit |-> 60, bon |-> 90, excellent |-> 120]],
          charges_rh |-> [unit |-> "ratio_inverse", thresholds |-> [crit |-> 50, bon |-> 40, excellent |-> 30]],
          digital_pct |-> [unit |-> "percentage", thresholds |-> [crit |-> 40, bon |-> 70, excellent |-> 85]],
          fidelisation |-> [unit |-> "percentage", thresholds |-> [crit |-> 50, bon |-> 72, excellent |-> 85]]]]>>]
  >>

Range(s) == {s[i] : i \in 1..Len(s)}

SectorNames == {s.name : s \in Range(PARAM_SECTEUR)}

\* the sector read with the good threshold of charges_rh of its first variant
\* raised to the critical one
SectorOf_EqualThresholds(secteur) ==
  LET s == CHOOSE x \in Range(PARAM_SECTEUR) : x.name = secteur
  IN  [s EXCEPT !.variants[1].metrics.charges_rh.thresholds.bon =
                   s.variants[1].metrics.charges_rh.thresholds.crit]

SectorOf(secteur) == CHOOSE s \in Range(PARAM_SECTEUR) : s.name = secteur

\* Object.values(sectors[secteur].variants), [] for an unknown sector
getSectorVariants(secteur) ==
  IF secteur \notin SectorNames THEN <<>> ELSE SectorOf(secteur).variants

\* getBenchmarks does not throw for (secteur, variant)
BenchmarksFound(secteur, variant) ==
  /\ secteur \in SectorNames
  /\ LET sect == SectorOf(secteur)
         varId == Coalesce(variant, sect.default_variant)
     IN  \E v \in Range(sect.variants) : v.id = varId

\* the metrics getBenchmarks returns when it does not throw
getBenchmarks(secteur, variant) ==
  LET sect == SectorOf(secteur)
      varId == Coalesce(variant, sect.default_variant)
  IN  (CHOOSE v \in Range(sect.variants) : v.id = varId).metrics


\* names every object literal inherits from Object.prototype
ObjectPrototypeKeys ==
  {"constructor", "toString", "valueOf", "hasOwnProperty", "__proto__"}

\* key in object, for an object literal with the given own keys: the in
\* operator also finds the inherited properties
InOperator(key, ownKeys) == key \in ownKeys \/ key \in ObjectPrototypeKeys

\* variant || sect.default_variant: an empty string is falsy
VarIdOf(sect, variant) ==
  IF variant = undefined \/ Get(variant) = "" THEN sect.default_variant ELSE Get(variant)

\* what a call getBenchmarks(secteur, variant) does:
\*  - "Error": one of the two throw statements;
\*  - "TypeError": secteur names an inherited property, whose value has no
\*    variants, and the in operator is applied to undefined;
\*  - "returned": the metrics of the variant, undefined when varId names an
\*    inherited property of the variants object
getBenchmarksCall(secteur, variant) ==
  IF ~InOperator(secteur, SectorNames) THEN [outcome |-> "Error", metrics |-> undefined]
  ELSE IF secteur \notin SectorNames THEN [outcome |-> "TypeError", metrics |-> undefined]
  ELSE LET sect == SectorOf(secteur)
           varId == VarIdOf(sect, variant)
           variantIds == {v.id : v \in Range(sect.variants)}
       IN  IF ~InOperator(varId, variantIds)
             THEN [outcome |-> "Error", metrics |-> undefined]
           ELSE IF varId \notin variantIds
             THEN [outcome |-> "returned", metrics |-> undefined]
           ELSE [outcome |-> "returned",
                 metrics |-> Some((CHOOSE v \in Range(sect.variants) : v.id = varId).metrics)]
-----------------------------------------------------------------------------
(* scoringV2.ts *)

Contribution(score, weight) == [score |-> score, weight |-> weight]

RECURSIVE SumWeights(_)
SumWeights(cs) == IF cs = <<>> THEN 0 ELSE Head(cs).weight + SumWeights(Tail(cs))

RECURSIVE SumWeighted(_)
SumWeighted(cs) ==
  IF cs = <<>> THEN RInt(0)
  ELSE RAdd(RScale(Head(cs).score, Head(cs).weight), SumWeighted(Tail(cs)))

\* calculateWeightedScore: weightedSum / totalWeight, 0 for no contribution
calculateWeightedScore(contributions) ==
  IF Len(contributions) = 0 THEN RInt(0)
  ELSE RDiv(SumWeighted(contributions), SumWeights(contributions))

\* Marge brute: mbRatio = grossMarginPercent / 100 against the ratio thresholds
mbScoreOf(grossMarginPercent, benchmarks) ==
  LET t == benchmarks.marge_brute.thresholds
  IN  IF grossMarginPercent >= t.excellent THEN RInt(100)
      ELSE IF grossMarginPercent >= t.bon THEN RInt(80)
      ELSE IF grossMarginPercent >= t.crit THEN RInt(50)
      ELSE RMax(RInt(0), Frac(grossMarginPercent * 9, 10))

\* Math.max(fte, 0.1), in tenths
fteFloor(fte) == IF fte > 1 THEN fte ELSE 1

\* caEtp = annualRevenue / Math.max(fte, 0.1)
caEtpOf(annualRevenue, fte) == Frac(annualRevenue * 10, fteFloor(fte))

caEtpScoreOf(caEtp, benchmarks) ==
  LET t == benchmarks.ca_etp.thresholds
  IN  IF RLe(RInt(t.excellent), caEtp) THEN RInt(100)
      ELSE IF RLe(RInt(t.bon), caEtp) THEN RInt(80)
      ELSE IF RLe(RInt(t.crit), caEtp) THEN RInt(50)
      ELSE RMax(RInt(0), RScale(RDiv(caEtp, t.crit), 50))

\* Charges RH (lower is better): 40 - (rhRatio - crit) * 100 past critical
rhScoreOf(hrCostsPercent, benchmarks) ==
  LET t == benchmarks.charges_rh.thresholds
  IN  IF hrCostsPercent <= t.excellent THEN RInt(100)
      ELSE IF hrCostsPercent <= t.bon THEN RInt(80)
      ELSE IF hrCostsPercent <= t.crit THEN RInt(50)
      ELSE RMax(RInt(0), RInt(40 - (hrCostsPercent - t.crit)))

netScoreOf(netMarginPercent) ==
  IF netMarginPercent >= 15 THEN 100
  ELSE IF netMarginPercent >= 10 THEN 80
  ELSE IF netMarginPercent >= 5 THEN 60
  ELSE IF netMarginPercent >= 0 THEN 40
  ELSE 20

runwayScoreOf(cashRunwayMonths) ==
  IF cashRunwayMonths >= 12 THEN 100
  ELSE IF cashRunwayMonths >= 6 THEN 80
  ELSE IF cashRunwayMonths >= 3 THEN 50
  ELSE 20

financierContributions(v2, benchmarks) ==
  <<Contribution(mbScoreOf(v2.finance.grossMarginPercent, benchmarks), 40),
    Contribution(caEtpScoreOf(caEtpOf(v2.finance.annualRevenue,
                                      v2.ops.productivity.fte), benchmarks), 30),
    Contribution(rhScoreOf(v2.costs.hrCostsPercent, benchmarks), 20)>>
  \o (IF v2.finance.netMarginPercent # undefined
      THEN <<Contribution(RInt(netScoreOf(Get(v2.finance.netMarginPercent))), 5)>>
      ELSE <<>>)
  \o (IF v2.finance.cashRunwayMonths # undefined
      THEN <<Contribution(RInt(runwayScoreOf(Get(v2.finance.cashRunwayMonths))), 5)>>
      ELSE <<>>)

\* Taux d'occupation: occRate = occupancyRatePercent / 100, occRate * 66 below 0.60
occScoreOf(occupancyRatePercent) ==
  IF occupancyRatePercent >= 95 THEN RInt(100)
  ELSE IF occupancyRatePercent >= 85 THEN RInt(80)
  ELSE IF occupancyRatePercent >= 75 THEN RInt(60)
  ELSE IF occupancyRatePercent >= 60 THEN RInt(40)
  ELSE RMax(RInt(0), Frac(occupancyRatePercent * 66, 100))

returnScoreOf(returnRatePercent) ==
  IF returnRatePercent <= 2 THEN 100
  ELSE IF returnRatePercent <= 5 THEN 80
  ELSE IF returnRatePercent <= 10 THEN 50
  ELSE 20

incidentScoreOf(incidentsPerMonth) ==
  IF incidentsPerMonth <= 1 THEN 100
  ELSE IF incidentsPerMonth <= 3 THEN 70
  ELSE IF incidentsPerMonth <= 5 THEN 50
  ELSE 20

\* the quality block: qualityScore starts at 100 and is pushed whenever the
\* quality object exists
qualityScoreOf(quality) ==
  LET afterReturn == IF quality.returnRatePercent # undefined
                     THEN returnScoreOf(Get(quality.returnRatePercent))
                     ELSE 100
  IN  IF quality.incidentsPerMonth # undefined
      THEN Frac(afterReturn + incidentScoreOf(Get(quality.incidentsPerMonth)), 2)
      ELSE RInt(afterReturn)

opsContributions(v2, benchmarks) ==
  <<Contribution(occScoreOf(v2.ops.occupancyRatePercent), 60),
    Contribution(caEtpScoreOf(caEtpOf(v2.finance.annualRevenue,
                                      v2.ops.productivity.fte), benchmarks), 25)>>
  \o (IF v2.ops.quality # undefined
      THEN <<Contribution(qualityScoreOf(Get(v2.ops.quality)), 15)>>
      ELSE <<>>)

\* Digitalisation: dp * 1.5 below critical
dpScoreOf(dp, benchmarks) ==
  LET t == benchmarks.digital_pct.thresholds
  IN  IF dp >= t.excellent THEN RInt(100)
      ELSE IF dp >= t.bon THEN RInt(80)
      ELSE IF dp >= t.crit THEN RInt(50)
      ELSE RMax(RInt(0), Frac(dp * 3, 2))

\* Fidelisation: fid * 0.8 below critical
fidScoreOf(fid, benchmarks) ==
  LET t == benchmarks.fidelisation.thresholds
  IN  IF fid >= t.excellent THEN RInt(100)
      ELSE IF fid >= t.bon THEN RInt(80)
      ELSE IF fid >= t.crit THEN RInt(50)
      ELSE RMax(RInt(0), Frac(fid * 4, 5))

csatScoreOf(csat) ==
  IF csat >= 90 THEN RInt(100)
  ELSE IF csat >= 80 THEN RInt(80)
  ELSE IF csat >= 70 THEN RInt(60)
  ELSE RMax(RInt(0), Frac(csat * 4, 5))

npsScoreOf(nps) ==
  IF nps >= 50 THEN 100
  ELSE IF nps >= 30 THEN 80
  ELSE IF nps >= 0 THEN 60
  ELSE IF nps >= -20 THEN 40
  ELSE 20

\* v2.commercial.satisfaction?.csatPercent
satisfactionCsat(v2) ==
  IF v2.commercial.satisfaction = undefined THEN undefined
  ELSE Get(v2.commercial.satisfaction).csatPercent

\* v2.commercial.satisfaction?.nps
satisfactionNps(v2) ==
  IF v2.commercial.satisfaction = undefined THEN undefined
  ELSE Get(v2.commercial.satisfaction).nps

commercialContributions(v2, benchmarks) ==
  <<Contribution(dpScoreOf(v2.commercial.digitalizationPercent, benchmarks), 45)>>
  \o (IF v2.commercial.loyaltyPercent # undefined
      THEN <<Contribution(fidScoreOf(Get(v2.commercial.loyaltyPercent), benchmarks), 35)>>
      ELSE <<>>)
  \o (IF satisfactionCsat(v2) # undefined
      THEN <<Contribution(csatScoreOf(Get(satisfactionCsat(v2))), 10)>>
      ELSE <<>>)
  \o (IF satisfactionNps(v2) # undefined
      THEN <<Contribution(RInt(npsScoreOf(Get(satisfactionNps(v2)))), 10)>>
      ELSE <<>>)

\* Math.min(100, Math.max(0, 40 + nbServices * 10)), nbServices ?? 1
servicesScoreOf(nbServices) ==
  LET raw == 40 + Coalesce(nbServices, 1) * 10
  IN  IF raw < 0 THEN 0 ELSE IF raw > 100 THEN 100 ELSE raw

runwayRiskOf(cashRunwayMonths) ==
  IF cashRunwayMonths < 3 THEN 20
  ELSE IF cashRunwayMonths < 6 THEN 50
  ELSE IF cashRunwayMonths < 12 THEN 80
  ELSE 100

turnoverScoreOf(turnoverRatePercent) ==
  IF turnoverRatePercent > 40 THEN 20
  ELSE IF turnoverRatePercent > 25 THEN 50
  ELSE IF turnoverRatePercent > 15 THEN 70
  ELSE 100

absScoreOf(absenteeismRatePercent) ==
  IF absenteeismRatePercent > 15 THEN 20
  ELSE IF absenteeismRatePercent > 10 THEN 50
  ELSE IF absenteeismRatePercent > 5 THEN 80
  ELSE 100

\* the HR block: hrStability starts at 100 and is pushed whenever the hr
\* object exists
hrStabilityOf(hr) ==
  LET afterTurnover == IF hr.turnoverRatePercent # undefined
                       THEN turnoverScoreOf(Get(hr.turnoverRatePercent))
                       ELSE 100
  IN  IF hr.absenteeismRatePercent # undefined
      THEN Frac(afterTurnover + absScoreOf(Get(hr.absenteeismRatePercent)), 2)
      ELSE RInt(afterTurnover)

scoreFinancierOf(v2, benchmarks) ==
  calculateWeightedScore(financierContributions(v2, benchmarks))

scoreOperationnelOf(v2, benchmarks) ==
  calculateWeightedScore(opsContributions(v2, benchmarks))

scoreCommercialOf(v2, benchmarks) ==
  calculateWeightedScore(commercialContributions(v2, benchmarks))

\* Dimension balance: Math.max(...scores) - Math.min(...scores) of the three
\* unrounded dimension scores
balanceScoreOf(v2, benchmarks) ==
  LET f == scoreFinancierOf(v2, benchmarks)
      o == scoreOperationnelOf(v2, benchmarks)
      c == scoreCommercialOf(v2, benchmarks)
      imbalance == RSub(RMax(f, RMax(o, c)), RMin(f, RMin(o, c)))
  IN  IF RLt(RInt(40), imbalance) THEN 50
      ELSE IF RLt(RInt(30), imbalance) THEN 70
      ELSE IF RLt(RInt(20), imbalance) THEN 85
      ELSE 100

strategiqueContributions(v2, benchmarks) ==
  <<Contribution(RInt(servicesScoreOf(v2.nbServices)), 40)>>
  \o (IF v2.finance.cashRunwayMonths # undefined
      THEN <<Contribution(RInt(runwayRiskOf(Get(v2.finance.cashRunwayMonths))), 20)>>
      ELSE <<>>)
  \o (IF v2.hr # undefined
      THEN <<Contribution(hrStabilityOf(Get(v2.hr)), 20)>>
      ELSE <<>>)
  \o <<Contribution(RInt(balanceScoreOf(v2, benchmarks)), 20)>>

scoreStrategiqueOf(v2, benchmarks) ==
  calculateWeightedScore(strategiqueContributions(v2, benchmarks))

\* v2.hr?.absenteeismRatePercent and the like
hrAbsenteeism(v2) == IF v2.hr = undefined THEN undefined ELSE Get(v2.hr).absenteeismRatePercent

hrTurnover(v2) == IF v2.hr = undefined THEN undefined ELSE Get(v2.hr).turnoverRatePercent

qualityReturnRate(v2) ==
  IF v2.ops.quality = undefined THEN undefined ELSE Get(v2.ops.quality).returnRatePercent

qualityIncidents(v2) ==
  IF v2.ops.quality = undefined THEN undefined ELSE Get(v2.ops.quality).incidentsPerMonth

\* the nine tracked optional fields, in the order of the source
optionalFields(v2) ==
  <<v2.finance.netMarginPercent,
    v2.finance.cashRunwayMonths,
    v2.costs.cogsPercent,
    v2.costs.fixedCostsPercent,
    hrAbsenteeism(v2),
    hrTurnover(v2),
    qualityReturnRate(v2),
    satisfactionCsat(v2),
    satisfactionNps(v2)>>

\* missingCountOf counting the fields that are present instead of the absent
missingCountOf_CountsPresent(v2) ==
  Cardinality({i \in 1..Len(optionalFields(v2)) : optionalFields(v2)[i] # undefined})

missingCountOf(v2) ==
  Cardinality({i \in 1..Len(optionalFields(v2)) : optionalFields(v2)[i] = undefined})

\* missingDataPenaltyOf with the thresholds compared by >= instead of >
missingDataPenaltyOf_Inclusive(missingCount) ==
  IF missingCount >= 5 THEN 2
  ELSE IF missingCount >= 3 THEN 1
  ELSE 0

missingDataPenaltyOf(missingCount) ==
  IF missingCount > 5 THEN 2
  ELSE IF missingCount > 3 THEN 1
  ELSE 0

\* the weighted sum of the four unrounded dimension scores minus the penalty
globalRawOf(f, o, c, s, penalty) ==
  RSub(RAdd(RAdd(Frac(f.n * 35, f.d * 100), Frac(o.n * 25, o.d * 100)),
            RAdd(Frac(c.n * 20, c.d * 100), Frac(s.n * 20, s.d * 100))),
       RInt(penalty))

\* Math.max(0, Math.min(100, x)) on tenths
clampTenths(x) == IF x < 0 THEN 0 ELSE IF x > 1000 THEN 1000 ELSE x

\* computeScoresV2 for a record whose benchmarks are found (normalizeToV2 is
\* the identity on an AuditDataV2)
computeScoresV2(v2) ==
  LET benchmarks == getBenchmarks(v2.sector, v2.variant)
      f == scoreFinancierOf(v2, benchmarks)
      o == scoreOperationnelOf(v2, benchmarks)
      c == scoreCommercialOf(v2, benchmarks)
      s == scoreStrategiqueOf(v2, benchmarks)
      scoreGlobal == RoundTenths(globalRawOf(f, o, c, s,
                                  missingDataPenaltyOf(missingCountOf(v2))))
  IN  [global       |-> clampTenths(scoreGlobal),
       financier    |-> RoundTenths(f),
       operationnel |-> RoundTenths(o),
       commercial   |-> RoundTenths(c),
       strategique  |-> RoundTenths(s)]

-----------------------------------------------------------------------------
(* warnings.ts *)

Warning(type, field) == [type |-> type, field |-> field]

\* one coherence check: the warning it pushes, or nothing
PushIf(cond, w) == IF cond THEN <<w>> ELSE <<>>

\* getAuditWarnings with an absent csatPercent read as 0
getAuditWarnings_AbsentAsZero(v2) ==
  PushIf(/\ v2.costs.cogsPercent # undefined
         /\ Abs(v2.finance.grossMarginPercent + Get(v2.costs.cogsPercent) - 100) > 8,
         Warning("warning", "cogsPercent"))
  \o PushIf(/\ v2.finance.netMarginPercent # undefined
            /\ Get(v2.finance.netMarginPercent) > v2.finance.grossMarginPercent,
            Warning("warning", "netMarginPercent"))
  \o PushIf(v2.costs.hrCostsPercent + Coalesce(v2.costs.cogsPercent, 0)
              + Coalesce(v2.costs.fixedCostsPercent, 0) > 115,
            Warning("warning", "costs"))
  \o PushIf(v2.ops.occupancyRatePercent > 95,
            Warning("warning", "occupancyRatePercent"))
  \o PushIf(hrAbsenteeism(v2) # undefined /\ Get(hrAbsenteeism(v2)) > 15,
            Warning("critical", "absenteeismRatePercent"))
  \o PushIf(hrTurnover(v2) # undefined /\ Get(hrTurnover(v2)) > 40,
            Warning("critical", "turnoverRatePercent"))
  \o PushIf(qualityReturnRate(v2) # undefined /\ Get(qualityReturnRate(v2)) > 10,
            Warning("warning", "returnRatePercent"))
  \o PushIf(/\ v2.finance.cashRunwayMonths # undefined
            /\ Get(v2.finance.cashRunwayMonths) < 3,
            Warning("critical", "cashRunwayMonths"))
  \o PushIf(satisfactionNps(v2) # undefined /\ Get(satisfactionNps(v2)) < 0,
            Warning("warning", "nps"))
  \o PushIf(Coalesce(satisfactionCsat(v2), 0) < 70,
            Warning("warning", "csatPercent"))

\* getAuditWarnings: the ten rules in order, each pushing at most one warning
getAuditWarnings(v2) ==
  PushIf(/\ v2.costs.cogsPercent # undefined
         /\ Abs(v2.finance.grossMarginPercent + Get(v2.costs.cogsPercent) - 100) > 8,
         Warning("warning", "cogsPercent"))
  \o PushIf(/\ v2.finance.netMarginPercent # undefined
            /\ Get(v2.finance.netMarginPercent) > v2.finance.grossMarginPercent,
            Warning("warning", "netMarginPercent"))
  \o PushIf(v2.costs.hrCostsPercent + Coalesce(v2.costs.cogsPercent, 0)
              + Coalesce(v2.costs.fixedCostsPercent, 0) > 115,
            Warning("warning", "costs"))
  \o PushIf(v2.ops.occupancyRatePercent > 95,
            Warning("warning", "occupancyRatePercent"))
  \o PushIf(hrAbsenteeism(v2) # undefined /\ Get(hrAbsenteeism(v2)) > 15,
            Warning("critical", "absenteeismRatePercent"))
  \o PushIf(hrTurnover(v2) # undefined /\ Get(hrTurnover(v2)) > 40,
            Warning("critical", "turnoverRatePercent"))
  \o PushIf(qualityReturnRate(v2) # undefined /\ Get(qualityReturnRate(v2)) > 10,
            Warning("warning", "returnRatePercent"))
  \o PushIf(/\ v2.finance.cashRunwayMonths # undefined
            /\ Get(v2.finance.cashRunwayMonths) < 3,
            Warning("critical", "cashRunwayMonths"))
  \o PushIf(satisfactionNps(v2) # undefined /\ Get(satisfactionNps(v2)) < 0,
            Warning("warning", "nps"))
  \o PushIf(satisfactionCsat(v2) # undefined /\ Get(satisfactionCsat(v2)) < 70,
            Warning("warning", "csatPercent"))

-----------------------------------------------------------------------------
(* decisionEngine.ts *)

Rule(id, category, severity, quickWin, structuralAction) ==
  [id |-> id, category |-> category, severity |-> severity,
   quickWin |-> quickWin, structuralAction |-> structuralAction]

\* RISK_RULES in declaration order; a rule's risk and lever texts are named by
\* its id, quickWin / structuralAction tell whether the rule declares one
RISK_RULES ==
  <<Rule("runway_critical", "financial", "critical", FALSE, TRUE),
    Rule("runway_warning", "financial", "high", TRUE, FALSE),
    Rule("low_gross_margin", "financial", "high", FALSE, TRUE),
    Rule("negative_net_margin", "financial", "critical", FALSE, TRUE),
    Rule("hr_cost_high", "hr", "critical", FALSE, TRUE),
    Rule("high_absenteeism", "hr", "high", TRUE, FALSE),
    Rule("critical_absenteeism", "hr", "critical", FALSE, TRUE),
    Rule("high_turnover", "hr", "high", TRUE, FALSE),
    Rule("critical_turnover", "hr", "critical", FALSE, TRUE),
    Rule("low_occupancy", "operational", "high", TRUE, TRUE),
    Rule("very_high_occupancy", "operational", "medium", TRUE, FALSE),
    Rule("low_productivity", "operational", "high", FALSE, TRUE),
    Rule("quality_issues", "operational", "medium", TRUE, FALSE),
    Rule("low_digitalization", "commercial", "high", TRUE, TRUE),
    Rule("moderate_digitalization", "commercial", "medium", TRUE, FALSE),
    Rule("low_loyalty", "commercial", "high", TRUE, FALSE),
    Rule("low_satisfaction", "commercial", "high", TRUE, FALSE),
    Rule("negative_nps", "commercial", "high", FALSE, TRUE),
    Rule("dimension_imbalance", "strategic", "medium", FALSE, TRUE),
    Rule("low_diversification", "strategic", "medium", FALSE, TRUE)>>

Max4(a, b, c, d) ==
  LET m(x, y) == IF x >= y THEN x ELSE y IN m(m(a, b), m(c, d))

Min4(a, b, c, d) ==
  LET m(x, y) == IF x <= y THEN x ELSE y IN m(m(a, b), m(c, d))

\* rule.condition(data, scores); scores are in tenths
RuleCondition(id, data, s) ==
  CASE id = "runway_critical" ->
         /\ data.finance.cashRunwayMonths # undefined
         /\ Get(data.finance.cashRunwayMonths) < 3
    [] id = "runway_warning" ->
         /\ data.finance.cashRunwayMonths # undefined
         /\ Get(data.finance.cashRunwayMonths) >= 3
         /\ Get(data.finance.cashRunwayMonths) < 6
    [] id = "low_gross_margin" -> s.financier < 450
    [] id = "negative_net_margin" ->
         /\ data.finance.netMarginPercent # undefined
         /\ Get(data.finance.netMarginPercent) < 0
    [] id = "hr_cost_high" ->
         data.costs.hrCostsPercent > 50 /\ Coalesce(hrAbsenteeism(data), 0) > 8
    [] id = "high_absenteeism" ->
         Coalesce(hrAbsenteeism(data), 0) > 8 /\ Coalesce(hrAbsenteeism(data), 0) <= 15
    [] id = "critical_absenteeism" -> Coalesce(hrAbsenteeism(data), 0) > 15
    [] id = "high_turnover" ->
         Coalesce(hrTurnover(data), 0) > 25 /\ Coalesce(hrTurnover(data), 0) <= 40
    [] id = "critical_turnover" -> Coalesce(hrTurnover(data), 0) > 40
    [] id = "low_occupancy" -> data.ops.occupancyRatePercent < 65
    [] id = "very_high_occupancy" -> data.ops.occupancyRatePercent > 95
    [] id = "low_productivity" -> s.operationnel < 500
    [] id = "quality_issues" -> Coalesce(qualityReturnRate(data), 0) > 5
    [] id = "low_digitalization" -> data.commercial.digitalizationPercent < 40
    [] id = "moderate_digitalization" ->
         /\ data.commercial.digitalizationPercent >= 40
         /\ data.commercial.digitalizationPercent < 60
    [] id = "low_loyalty" -> Coalesce(data.commercial.loyaltyPercent, 100) < 60
    [] id = "low_satisfaction" -> Coalesce(satisfactionCsat(data), 100) < 75
    [] id = "negative_nps" -> Coalesce(satisfactionNps(data), 50) < 0
    [] id = "dimension_imbalance" ->
         Max4(s.financier, s.operationnel, s.commercial, s.strategique)
           - Min4(s.financier, s.operationnel, s.commercial, s.strategique) > 300
    [] id = "low_diversification" -> Coalesce(data.nbServices, 1) <= 2

\* the filter without the rules of category hr
TriggeredRules_WithoutHr(data, s) ==
  SelectSeq(RISK_RULES, LAMBDA r : r.category # "hr" /\ RuleCondition(r.id, data, s))

\* RISK_RULES.filter(rule => rule.condition(v2, scores))
TriggeredRules(data, s) ==
  SelectSeq(RISK_RULES, LAMBDA r : RuleCondition(r.id, data, s))

OfSeverity(rules, sev) == SelectSeq(rules, LAMBDA r : r.severity = sev)

\* triggeredRules.sort by severityOrder: Array.prototype.sort is stable, so the
\* result is the critical rules, then high, medium, low, each in their order
\* a sort by severity that does not keep the declaration order of equal rules
SortBySeverity_Unstable(rules) ==
  LET Reversed(q) == [i \in 1..Len(q) |-> q[Len(q) + 1 - i]]
  IN  Reversed(OfSeverity(rules, "critical")) \o Reversed(OfSeverity(rules, "high"))
        \o Reversed(OfSeverity(rules, "medium")) \o Reversed(OfSeverity(rules, "low"))

SortBySeverity(rules) ==
  OfSeverity(rules, "critical") \o OfSeverity(rules, "high")
    \o OfSeverity(rules, "medium") \o OfSeverity(rules, "low")

\* slice(0, 3)
Slice3(s) == IF Len(s) <= 3 THEN s ELSE SubSeq(s, 1, 3)

Ids(rules) == [i \in 1..Len(rules) |-> rules[i].id]

\* determinePriorityLevel asking for more than two high rules
determinePriorityLevel_ThreeHigh(s, triggeredRules) ==
  IF s.global < 400 THEN "CRITIQUE"
  ELSE IF \E i \in 1..Len(triggeredRules) : triggeredRules[i].severity = "critical"
    THEN "CRITIQUE"
  ELSE IF s.global < 500 \/ Len(OfSeverity(triggeredRules, "high")) > 2
    THEN "E'LEVE'"
  ELSE IF s.global < 600
          \/ \E i \in 1..Len(triggeredRules) : triggeredRules[i].severity = "high"
    THEN "MODE'RE'"
  ELSE "FAIBLE"

\* determinePriorityLevel testing the global score before the critical rules
determinePriorityLevel_ScoreFirst(s, triggeredRules) ==
  IF s.global < 400 THEN "CRITIQUE"
  ELSE IF s.global < 500 \/ Len(OfSeverity(triggeredRules, "high")) >= 2
    THEN "E'LEVE'"
  ELSE IF s.global < 600
          \/ \E i \in 1..Len(triggeredRules) : triggeredRules[i].severity = "high"
    THEN "MODE'RE'"
  ELSE IF \E i \in 1..Len(triggeredRules) : triggeredRules[i].severity = "critical"
    THEN "CRITIQUE"
  ELSE "FAIBLE"

determinePriorityLevel(s, triggeredRules) ==
  IF s.global < 400 THEN "CRITIQUE"
  ELSE IF \E i \in 1..Len(triggeredRules) : triggeredRules[i].severity = "critical"
    THEN "CRITIQUE"
  ELSE IF s.global < 500 \/ Len(OfSeverity(triggeredRules, "high")) >= 2
    THEN "E'LEVE'"
  ELSE IF s.global < 600
          \/ \E i \in 1..Len(triggeredRules) : triggeredRules[i].severity = "high"
    THEN "MODE'RE'"
  ELSE "FAIBLE"

\* the templated sentence: the template is chosen by the level, CRITIQUE
\* interpolates the number of top risks and E'LEVE' the global score
generateDecisionSummary(priorityLevel, topRisks, topLevers, s) ==
  [template |-> priorityLevel,
   riskCount |-> IF priorityLevel = "CRITIQUE" THEN <<Len(topRisks)>> ELSE <<>>,
   global |-> IF priorityLevel = "E'LEVE'" THEN <<s.global>> ELSE <<>>]

\* computeDecisionOutput with a priority that a critical warning raises
computeDecisionOutput_ReadsWarnings(auditData, s, warns) ==
  LET triggeredRules == SortBySeverity(TriggeredRules(auditData, s))
      topRisks == Ids(Slice3(triggeredRules))
      priorityLevel ==
        IF \E i \in 1..Len(warns) : warns[i].type = "critical" THEN "CRITIQUE"
        ELSE determinePriorityLevel(s, triggeredRules)
  IN  [priorityLevel |-> priorityLevel,
       topRisks |-> topRisks,
       topLevers |-> topRisks,
       quickWins |-> Ids(Slice3(SelectSeq(triggeredRules, LAMBDA r : r.quickWin))),
       structuralActions |->
         Ids(Slice3(SelectSeq(triggeredRules, LAMBDA r : r.structuralAction))),
       decisionSummary |-> generateDecisionSummary(priorityLevel, topRisks, topRisks, s)]

\* computeDecisionOutput(auditData, scores, warnings): the returned object has
\* exactly these six properties
computeDecisionOutput(auditData, s, warns) ==
  LET triggeredRules == SortBySeverity(TriggeredRules(auditData, s))
      topRisks == Ids(Slice3(triggeredRules))
      topLevers == Ids(Slice3(triggeredRules))
      quickWins == Ids(Slice3(SelectSeq(triggeredRules, LAMBDA r : r.quickWin)))
      structuralActions ==
        Ids(Slice3(SelectSeq(triggeredRules, LAMBDA r : r.structuralAction)))
      priorityLevel == determinePriorityLevel(s, triggeredRules)
  IN  [priorityLevel |-> priorityLevel,
       topRisks |-> topRisks,
       topLevers |-> topLevers,
       quickWins |-> quickWins,
       structuralActions |-> structuralActions,
       decisionSummary |->
         generateDecisionSummary(priorityLevel, topRisks, topLevers, s)]

-----------------------------------------------------------------------------
(* sectorValidation.ts: a text is a sequence of characters; an accented     *)
(* letter is one character written letter + mark ("e'" is e acute)          *)

\* ALLOWED_SECTORS, each identifier with its characters
ALLOWED_SECTORS ==
  <<[id |-> "veterinaire", text |-> <<"v", "e", "t", "e", "r", "i", "n", "a", "i", "r", "e">>],
    [id |-> "clinique_veterinaire", text |-> <<"c", "l", "i", "n", "i", "q", "u", "e", "_", "v", "e", "t", "e", "r", "i", "n", "a", "i", "r", "e">>],
    [id |-> "osteopathe", text |-> <<"o", "s", "t", "e", "o", "p", "a", "t", "h", "e">>],
    [id |-> "kinesitherapeute", text |-> <<"k", "i", "n", "e", "s", "i", "t", "h", "e", "r", "a", "p", "e", "u", "t", "e">>],
    [id |-> "therapeute", text |-> <<"t", "h", "e", "r", "a", "p", "e", "u", "t", "e">>],
    [id |-> "sante_liberale_autre", text |-> <<"s", "a", "n", "t", "e", "_", "l", "i", "b", "e", "r", "a", "l", "e", "_", "a", "u", "t", "r", "e">>],
    [id |-> "commerce", text |-> <<"c", "o", "m", "m", "e", "r", "c", "e">>],
    [id |-> "services", text |-> <<"s", "e", "r", "v", "i", "c", "e", "s">>],
    [id |-> "btp", text |-> <<"b", "t", "p">>],
    [id |-> "industrie", text |-> <<"i", "n", "d", "u", "s", "t", "r", "i", "e">>],
    [id |-> "restauration", text |-> <<"r", "e", "s", "t", "a", "u", "r", "a", "t", "i", "o", "n">>],
    [id |-> "autre", text |-> <<"a", "u", "t", "r", "e">>]>>

\* SECTOR_SYNONYMS in declaration order (the order Object.entries yields:
\* no key is an array index)
SECTOR_SYNONYMS ==
  <<[key |-> <<"v", "e", "t", "e", "r", "i", "n", "a", "i", "r", "e">>, sector |-> "veterinaire"],
    [key |-> <<"v", "e", "t", "o">>, sector |-> "veterinaire"],
    [key |-> <<"v", "e", "t", "e", "r", "i", "n", "a", "r", "y">>, sector |-> "veterinaire"],
    [key |-> <<"a", "n", "i", "m", "a", "l">>, sector |-> "veterinaire"],
    [key |-> <<"c", "l", "i", "n", "i", "q", "u", "e", " ", "v", "e", "t", "e", "r", "i", "n", "a", "i", "r", "e">>, sector |-> "clinique_veterinaire"],
    [key |-> <<"c", "l", "i", "n", "i", "q", "u", "e", " ", "v", "e", "t", "o">>, sector |-> "clinique_veterinaire"],
    [key |-> <<"h", "o", "p", "i", "t", "a", "l", " ", "v", "e", "t", "e", "r", "i", "n", "a", "i", "r", "e">>, sector |-> "clinique_veterinaire"],
    [key |-> <<"o", "s", "t", "e", "o", "p", "a", "t", "h", "e">>, sector |-> "osteopathe"],
    [key |-> <<"o", "s", "t", "e", "o">>, sector |-> "osteopathe"],
    [key |-> <<"o", "s", "t", "e", "o", "p", "a", "t", "h", "i", "e">>, sector |-> "osteopathe"],
    [key |-> <<"o", "s", "t", "e", "o", "p", "a", "t", "h">>, sector |-> "osteopathe"],
    [key |-> <<"k", "i", "n", "e", "s", "i", "t", "h", "e", "r", "a", "p", "e", "u", "t", "e">>, sector |-> "kinesitherapeute"],
    [key |-> <<"k", "i", "n", "e">>, sector |-> "kinesitherapeute"],
    [key |-> <<"k", "i", "n", "e", "t", "h", "e", "r", "a", "p", "e", "u", "t", "e">>, sector |-> "kinesitherapeute"],
    [key |-> <<"m", "a", "s", "s", "e", "u", "r", " ", "k", "i", "n", "e", "s", "i", "t", "h", "e", "r", "a", "p", "e", "u", "t", "e">>, sector |-> "kinesitherapeute"],
    [key |-> <<"m", "a", "s", "s", "e", "u", "r", " ", "k", "i", "n", "e">>, sector |-> "kinesitherapeute"],
    [key |-> <<"p", "h", "y", "s", "i", "o", "t", "h", "e", "r", "a", "p", "e", "u", "t", "e">>, sector |-> "kinesitherapeute"],
    [key |-> <<"p", "h", "y", "s", "i", "o">>, sector |-> "kinesitherapeute"],
    [key |-> <<"t", "h", "e", "r", "a", "p", "e", "u", "t", "e">>, sector |-> "therapeute"],
    [key |-> <<"t", "h", "e", "r", "a", "p", "i", "e">>, sector |-> "therapeute"],
    [key |-> <<"p", "r", "a", "t", "i", "c", "i", "e", "n", " ", "b", "i", "e", "n", " ", "e", "t", "r", "e">>, sector |-> "therapeute"],
    [key |-> <<"p", "r", "a", "t", "i", "c", "i", "e", "n", " ", "b", "i", "e", "n", "-", "e", "t", "r", "e">>, sector |-> "therapeute"],
    [key |-> <<"b", "i", "e", "n", " ", "e", "t", "r", "e">>, sector |-> "therapeute"],
    [key |-> <<"b", "i", "e", "n", "-", "e", "t", "r", "e">>, sector |-> "therapeute"],
    [key |-> <<"p", "s", "y", "c", "h", "o", "l", "o", "g", "u", "e">>, sector |-> "therapeute"],
    [key |-> <<"p", "s", "y", "c", "h", "o", "t", "h", "e", "r", "a", "p", "e", "u", "t", "e">>, sector |-> "therapeute"],
    [key |-> <<"s", "o", "p", "h", "r", "o", "l", "o", "g", "i", "e">>, sector |-> "therapeute"],
    [key |-> <<"s", "o", "p", "h", "r", "o", "l", "o", "g", "u", "e">>, sector |-> "therapeute"],
    [key |-> <<"n", "a", "t", "u", "r", "o", "p", "a", "t", "h", "e">>, sector |-> "therapeute"],
    [key |-> <<"n", "a", "t", "u", "r", "o", "p", "a", "t", "h", "i", "e">>, sector |-> "therapeute"],
    [key |-> <<"h", "y", "p", "n", "o", "t", "h", "e", "r", "a", "p", "e", "u", "t", "e">>, sector |-> "therapeute"],
    [key |-> <<"h", "y", "p", "n", "o", "s", "e">>, sector |-> "therapeute"],
    [key |-> <<"a", "c", "u", "p", "u", "n", "c", "t", "e", "u", "r">>, sector |-> "therapeute"],
    [key |-> <<"a", "c", "u", "p", "u", "n", "c", "t", "u", "r", "e">>, sector |-> "therapeute"],
    [key |-> <<"s", "a", "n", "t", "e", " ", "l", "i", "b", "e", "r", "a", "l", "e", " ", "a", "u", "t", "r", "e">>, sector |-> "sante_liberale_autre"],
    [key |-> <<"s", "a", "n", "t", "e", " ", "l", "i", "b", "e", "r", "a", "l", "e">>, sector |-> "sante_liberale_autre"],
    [key |-> <<"p", "r", "o", "f", "e", "s", "s", "i", "o", "n", "n", "e", "l", " ", "d", "e", " ", "s", "a", "n", "t", "e">>, sector |-> "sante_liberale_autre"],
    [key |-> <<"m", "e", "d", "e", "c", "i", "n">>, sector |-> "sante_liberale_autre"],
    [key |-> <<"d", "e", "n", "t", "i", "s", "t", "e">>, sector |-> "sante_liberale_autre"],
    [key |-> <<"i", "n", "f", "i", "r", "m", "i", "e", "r">>, sector |-> "sante_liberale_autre"],
    [key |-> <<"i", "n", "f", "i", "r", "m", "i", "e", "r", "e">>, sector |-> "sante_liberale_autre"],
    [key |-> <<"p", "h", "a", "r", "m", "a", "c", "i", "e", "n">>, sector |-> "sante_liberale_autre"],
    [key |-> <<"s", "a", "g", "e", " ", "f", "e", "m", "m", "e">>, sector |-> "sante_liberale_autre"],
    [key |-> <<"o", "r", "t", "h", "o", "p", "h", "o", "n", "i", "s", "t", "e">>, sector |-> "sante_liberale_autre"],
    [key |-> <<"p", "o", "d", "o", "l", "o", "g", "u", "e">>, sector |-> "sante_liberale_autre"],
    [key |-> <<"d", "i", "e", "t", "e", "t", "i", "c", "i", "e", "n">>, sector |-> "sante_liberale_autre"],
    [key |-> <<"c", "o", "m", "m", "e", "r", "c", "e">>, sector |-> "commerce"],
    [key |-> <<"c", "o", "m", "m", "e", "r", "c", "e", " ", "d", "e", " ", "d", "e", "t", "a", "i", "l">>, sector |-> "commerce"],
    [key |-> <<"r", "e", "t", "a", "i", "l">>, sector |-> "commerce"],
    [key |-> <<"b", "o", "u", "t", "i", "q", "u", "e">>, sector |-> "commerce"],
    [key |-> <<"m", "a", "g", "a", "s", "i", "n">>, sector |-> "commerce"],
    [key |-> <<"e", "p", "i", "c", "e", "r", "i", "e">>, sector |-> "commerce"],
    [key |-> <<"s", "u", "p", "e", "r", "m", "a", "r", "c", "h", "e">>, sector |-> "commerce"],
    [key |-> <<"s", "e", "r", "v", "i", "c", "e", "s">>, sector |-> "services"],
    [key |-> <<"s", "e", "r", "v", "i", "c", "e">>, sector |-> "services"],
    [key |-> <<"c", "o", "n", "s", "e", "i", "l">>, sector |-> "services"],
    [key |-> <<"c", "o", "n", "s", "u", "l", "t", "i", "n", "g">>, sector |-> "services"],
    [key |-> <<"c", "a", "b", "i", "n", "e", "t", " ", "c", "o", "n", "s", "e", "i", "l">>, sector |-> "services"],
    [key |-> <<"a", "g", "e", "n", "c", "e">>, sector |-> "services"],
    [key |-> <<"p", "r", "e", "s", "t", "a", "t", "a", "i", "r", "e">>, sector |-> "services"],
    [key |-> <<"b", "2", "b">>, sector |-> "services"],
    [key |-> <<"b", "t", "p">>, sector |-> "btp"],
    [key |-> <<"c", "o", "n", "s", "t", "r", "u", "c", "t", "i", "o", "n">>, sector |-> "btp"],
    [key |-> <<"b", "a", "t", "i", "m", "e", "n", "t">>, sector |-> "btp"],
    [key |-> <<"t", "r", "a", "v", "a", "u", "x", " ", "p", "u", "b", "l", "i", "c", "s">>, sector |-> "btp"],
    [key |-> <<"a", "r", "t", "i", "s", "a", "n">>, sector |-> "btp"],
    [key |-> <<"p", "l", "o", "m", "b", "i", "e", "r">>, sector |-> "btp"],
    [key |-> <<"e", "l", "e", "c", "t", "r", "i", "c", "i", "e", "n">>, sector |-> "btp"],
    [key |-> <<"m", "a", "c", "o", "n", "n", "e", "r", "i", "e">>, sector |-> "btp"],
    [key |-> <<"m", "e", "n", "u", "i", "s", "e", "r", "i", "e">>, sector |-> "btp"],
    [key |-> <<"p", "e", "i", "n", "t", "r", "e">>, sector |-> "btp"],
    [key |-> <<"c", "o", "u", "v", "r", "e", "u", "r">>, sector |-> "btp"],
    [key |-> <<"i", "n", "d", "u", "s", "t", "r", "i", "e">>, sector |-> "industrie"],
    [key |-> <<"i", "n", "d", "u", "s", "t", "r", "i", "e", "l">>, sector |-> "industrie"],
    [key |-> <<"m", "a", "n", "u", "f", "a", "c", "t", "u", "r", "e">>, sector |-> "industrie"],
    [key |-> <<"u", "s", "i", "n", "e">>, sector |-> "industrie"],
    [key |-> <<"p", "r", "o", "d", "u", "c", "t", "i", "o", "n">>, sector |-> "industrie"],
    [key |-> <<"f", "a", "b", "r", "i", "c", "a", "t", "i", "o", "n">>, sector |-> "industrie"],
    [key |-> <<"r", "e", "s", "t", "a", "u", "r", "a", "t", "i", "o", "n">>, sector |-> "restauration"],
    [key |-> <<"r", "e", "s", "t", "a", "u", "r", "a", "n", "t">>, sector |-> "restauration"],
    [key |-> <<"r", "e", "s", "t", "o">>, sector |-> "restauration"],
    [key |-> <<"c", "a", "f", "e">>, sector |-> "restauration"],
    [key |-> <<"b", "a", "r">>, sector |-> "restauration"],
    [key |-> <<"b", "r", "a", "s", "s", "e", "r", "i", "e">>, sector |-> "restauration"],
    [key |-> <<"t", "r", "a", "i", "t", "e", "u", "r">>, sector |-> "restauration"],
    [key |-> <<"f", "a", "s", "t", " ", "f", "o", "o", "d">>, sector |-> "restauration"],
    [key |-> <<"s", "n", "a", "c", "k">>, sector |-> "restauration"],
    [key |-> <<"p", "i", "z", "z", "e", "r", "i", "a">>, sector |-> "restauration"],
    [key |-> <<"b", "o", "u", "l", "a", "n", "g", "e", "r", "i", "e">>, sector |-> "restauration"],
    [key |-> <<"p", "a", "t", "i", "s", "s", "e", "r", "i", "e">>, sector |-> "restauration"],
    [key |-> <<"a", "u", "t", "r", "e">>, sector |-> "autre"],
    [key |-> <<"o", "t", "h", "e", "r">>, sector |-> "autre"],
    [key |-> <<"d", "i", "v", "e", "r", "s">>, sector |-> "autre"],
    [key |-> <<"n", "o", "n", " ", "s", "p", "e", "c", "i", "f", "i", "e">>, sector |-> "autre"]>>

\* SECTOR_LABELS
SECTOR_LABELS ==
  [veterinaire |-> "Ve'te'rinaire",
   clinique_veterinaire |-> "Clinique Ve'te'rinaire",
   osteopathe |-> "Oste'opathe",
   kinesitherapeute |-> "Kine'sithe'rapeute",
   therapeute |-> "The'rapeute / Bien-e^tre",
   sante_liberale_autre |-> "Sante' Libe'rale (autre)",
   commerce |-> "Commerce",
   services |-> "Services",
   btp |-> "BTP / Construction",
   industrie |-> "Industrie",
   restauration |-> "Restauration",
   autre |-> "Autre secteur"]

AllowedSectorIds == {ALLOWED_SECTORS[i].id : i \in 1..Len(ALLOWED_SECTORS)}

LowerLetters ==
  {"a", "b", "c", "d", "e", "f", "g", "h", "i", "j", "k", "l", "m",
   "n", "o", "p", "q", "r", "s", "t", "u", "v", "w", "x", "y", "z"}

Digits == {"0", "1", "2", "3", "4", "5", "6", "7", "8", "9"}

\* the characters \s matches
Whitespace == {" ", "\t"}

UpperCase ==
  <<"A", "B", "C", "D", "E", "F", "G", "H", "I", "J", "K", "L", "M",
    "N", "O", "P", "Q", "R", "S", "T", "U", "V", "W", "X", "Y", "Z", "E'">>

LowerCase ==
  <<"a", "b", "c", "d", "e", "f", "g", "h", "i", "j", "k", "l", "m",
    "n", "o", "p", "q", "r", "s", "t", "u", "v", "w", "x", "y", "z", "e'">>

\* String.prototype.toLowerCase, one character
toLowerCase(c) ==
  IF \E i \in 1..Len(UpperCase) : UpperCase[i] = c
  THEN LowerCase[CHOOSE i \in 1..Len(UpperCase) : UpperCase[i] = c]
  ELSE c

\* normalize('NFD') followed by the removal of U+0300..U+036F: an accented
\* letter keeps its base letter
stripAccent(c) ==
  CASE c \in {"e'", "e^"} -> "e"
    [] c = "a^" -> "a"
    [] c = "E'" -> "E"
    [] OTHER -> c

lowerAll(s) == [i \in 1..Len(s) |-> toLowerCase(s[i])]

stripAccents(s) == [i \in 1..Len(s) |-> stripAccent(s[i])]

RECURSIVE trimStart(_)
trimStart(s) ==
  IF s # <<>> /\ Head(s) \in Whitespace THEN trimStart(Tail(s)) ELSE s

RECURSIVE trimEnd(_)
trimEnd(s) ==
  IF s # <<>> /\ s[Len(s)] \in Whitespace THEN trimEnd(SubSeq(s, 1, Len(s) - 1)) ELSE s

\* String.prototype.trim
trim(s) == trimEnd(trimStart(s))

\* replace(/\s+/g, ' '): every run of whitespace becomes one space
RECURSIVE collapseWhitespace(_)
collapseWhitespace(s) ==
  IF s = <<>> THEN <<>>
  ELSE IF Head(s) \in Whitespace
    THEN <<" ">> \o collapseWhitespace(trimStart(Tail(s)))
    ELSE <<Head(s)>> \o collapseWhitespace(Tail(s))

\* replace(/[^a-z0-9\s-]/g, '')
keepAlphanumeric(s) ==
  SelectSeq(s, LAMBDA c : c \in LowerLetters \cup Digits \cup Whitespace \cup {"-"})

\* normalizeForSectorMatch without the removal of the combining marks
normalizeForSectorMatch_KeepsAccents(value) ==
  trim(collapseWhitespace(keepAlphanumeric(trim(lowerAll(value)))))

normalizeForSectorMatch(value) ==
  trim(collapseWhitespace(keepAlphanumeric(
    stripAccents(trim(lowerAll(value))))))

\* String.prototype.includes
Includes(text, part) ==
  \E i \in 0..(Len(text) - Len(part)) : SubSeq(text, i + 1, i + Len(part)) = part

SectorValidationResult(isValid, canonicalSector, label, isFallback, warning) ==
  [isValid |-> isValid, canonicalSector |-> canonicalSector, label |-> label,
   isFallback |-> isFallback, warning |-> warning]

\* SECTOR_LABELS[sector]: undefined when sector is no key of the table
labelOf(sector) ==
  IF sector \in DOMAIN SECTOR_LABELS THEN Some(SECTOR_LABELS[sector]) ELSE undefined

\* the name of a property every object inherits from Object.prototype and
\* that normalizeForSectorMatch can return
constructorKey == <<"c", "o", "n", "s", "t", "r", "u", "c", "t", "o", "r">>

\* SECTOR_SYNONYMS[normalized] on a plain object literal: an own key gives its
\* sector; the inherited property gives the function Object, which is truthy
synonymLookup(normalized) ==
  IF \E i \in 1..Len(SECTOR_SYNONYMS) : SECTOR_SYNONYMS[i].key = normalized
  THEN Some(SECTOR_SYNONYMS[CHOOSE i \in 1..Len(SECTOR_SYNONYMS) :
                               SECTOR_SYNONYMS[i].key = normalized].sector)
  ELSE IF normalized = constructorKey THEN Some("function Object")
  ELSE undefined

\* the entries for which normalized.includes(synonym) || synonym.includes(normalized)
partialMatches(normalized) ==
  SelectSeq(SECTOR_SYNONYMS,
            LAMBDA e : Includes(normalized, e.key) \/ Includes(e.key, normalized))

\* validateAndMapSector(rawValue); rawValue is <<>> for null or undefined
validateAndMapSector(raw) ==
  IF raw = undefined \/ Get(raw) = <<>> \/ trim(Get(raw)) = <<>>
  THEN SectorValidationResult(FALSE, "autre", Some(SECTOR_LABELS.autre), TRUE,
                              Some("Secteur non renseigne'"))
  ELSE
    LET normalized == normalizeForSectorMatch(Get(raw))
        direct == SelectSeq(ALLOWED_SECTORS, LAMBDA a : a.text = normalized)
        mappedSector == synonymLookup(normalized)
        partial == partialMatches(normalized)
    IN  IF direct # <<>>
          THEN SectorValidationResult(TRUE, direct[1].id, labelOf(direct[1].id),
                                      FALSE, undefined)
        ELSE IF mappedSector # undefined
          THEN SectorValidationResult(TRUE, Get(mappedSector),
                                      labelOf(Get(mappedSector)), FALSE, undefined)
        ELSE IF partial # <<>>
          THEN SectorValidationResult(TRUE, partial[1].sector,
                                      labelOf(partial[1].sector), FALSE, undefined)
        ELSE SectorValidationResult(TRUE, "autre", Some(SECTOR_LABELS.autre), TRUE,
                                    Some("Secteur non reconnu"))

-----------------------------------------------------------------------------
(* The records handed to the engines: types/audit.ts and the AuditForm *)

\* the number of form edits applied to a starting record
MaxEdits == 2

AuditDataV2(sector, variant, finance, costs, ops, hr, commercial, nbServices) ==
  [sector |-> sector, variant |-> variant, finance |-> finance, costs |-> costs,
   ops |-> ops, hr |-> hr, commercial |-> commercial, nbServices |-> nbServices]

FinanceData(annualRevenue, grossMarginPercent, netMarginPercent, cashRunwayMonths) ==
  [annualRevenue |-> annualRevenue, grossMarginPercent |-> grossMarginPercent,
   netMarginPercent |-> netMarginPercent, cashRunwayMonths |-> cashRunwayMonths]

CostsData(hrCostsPercent, cogsPercent, fixedCostsPercent) ==
  [hrCostsPercent |-> hrCostsPercent, cogsPercent |-> cogsPercent,
   fixedCostsPercent |-> fixedCostsPercent]

QualityData(returnRatePercent, incidentsPerMonth) ==
  [returnRatePercent |-> returnRatePercent, incidentsPerMonth |-> incidentsPerMonth]

OpsData(occupancyRatePercent, fte, quality) ==
  [occupancyRatePercent |-> occupancyRatePercent,
   productivity |-> [fte |-> fte], quality |-> quality]

HRData(absenteeismRatePercent, turnoverRatePercent) ==
  [absenteeismRatePercent |-> absenteeismRatePercent,
   turnoverRatePercent |-> turnoverRatePercent]

SatisfactionData(csatPercent, nps) == [csatPercent |-> csatPercent, nps |-> nps]

CommercialData(digitalizationPercent, loyaltyPercent, satisfaction) ==
  [digitalizationPercent |-> digitalizationPercent,
   loyaltyPercent |-> loyaltyPercent, satisfaction |-> satisfaction]

\* defaultAuditDataV2: its sector 'Veterinaire' carries no accent and is not a
\* key of PARAM_SECTEUR
defaultAuditDataV2 ==
  AuditDataV2("Veterinaire", Some("veto_standard"),
              FinanceData(450, 68, undefined, undefined),
              CostsData(52, undefined, undefined),
              OpsData(85, 45, undefined),
              undefined,
              CommercialData(85, Some(88), undefined),
              Some(5))

\* the default record once the sector select holds the table's key
defaultWithSector == [defaultAuditDataV2 EXCEPT !.sector = "Ve'te'rinaire"]

\* a record with every optional field filled in
completeRecord ==
  AuditDataV2("Services", Some("services_conseil"),
              FinanceData(900, 82, Some(12), Some(8)),
              CostsData(45, Some(20), Some(20)),
              OpsData(88, 60, Some(QualityData(Some(3), Some(2)))),
              Some(HRData(Some(4), Some(10))),
              CommercialData(92, Some(96), Some(SatisfactionData(Some(92), Some(60)))),
              Some(4))

\* a record as convertToAuditDataV2 builds it from an import: no loyalty, no
\* variant, some optional values
importedRecord ==
  AuditDataV2("Commerce", undefined,
              FinanceData(300, 70, Some(6), Some(4)),
              CostsData(50, Some(30), Some(25)),
              OpsData(80, 30, Some(QualityData(Some(4), undefined))),
              undefined,
              CommercialData(50, undefined, undefined),
              Some(1))

StartRecords == {defaultAuditDataV2, defaultWithSector, completeRecord, importedRecord}

\* values a number input or slider is set to
RevenueValues == {50, 900}
FteValues == {0, 100}
GrossMarginValues == {40, 95}
HrCostsValues == {20, 80}
OccupancyValues == {50, 97}
DigitalizationValues == {30, 69}
LoyaltyValues == {50, 96}
NbServicesValues == {1, 8}
NetMarginValues == {-5, 20, 45}
RunwayValues == {2, 14}
CogsValues == {10, 60}
FixedCostsValues == {45}
AbsenteeismValues == {10, 20}
TurnoverValues == {30, 50}
ReturnRateValues == {7, 12}
IncidentsValues == {6}
CsatValues == {60, 100}
NpsValues == {-30, 40}

\* e.target.value ? Number(e.target.value) : undefined
OptionalInput(values) == {undefined} \cup {Some(v) : v \in values}


\* initialAuditState (the business name is not held)
initialAuditState ==
  [auditData |-> <<>>, scores |-> <<>>, warnings |-> <<>>, decision |-> <<>>,
   isCalculating |-> FALSE, isPdfGenerating |-> FALSE,
   importMeta |-> <<>>, importWarnings |-> <<>>]


\* the state of an import panel before any validation: hash, validationResult
\* and importError are null
initialPanel == [hash |-> <<>>, validationResult |-> <<>>, importError |-> <<>>]

\* DataImportModule: the JSON tab is shown first
initialPanels == [activeTab |-> "json", json |-> initialPanel, excel |-> initialPanel]
-----------------------------------------------------------------------------
(* State machine *)

resultVars == <<threw, scores, scoresArg, warnings, decision>>

sectorVars == <<rawValue, sectorResult>>

Init ==
  /\ formData \in StartRecords
  /\ edits = 0
  /\ phase = "form"
  /\ threw = FALSE
  /\ scores = <<>>
  /\ scoresArg = <<>>
  /\ warnings = <<>>
  /\ decision = <<>>
  /\ rawValue = <<>>
  /\ sectorResult = <<>>
  /\ lookup = <<>>
  /\ lookupResult = <<>>
  /\ simulation = <<>>
  /\ simResult = <<>>
  /\ auditState = initialAuditState
  /\ calls = 0
  /\ importInput = <<>>
  /\ importResult = <<>>
  /\ moduleProps = <<>>
  /\ prioritized = <<>>
  /\ results = <<>>
  /\ requests = <<>>
  /\ importHistory = <<>>
  /\ panels = initialPanels
  /\ now = 0

\* setFormData(next): one edit of the form
setFormData(next) ==
  /\ phase = "form"
  /\ edits < MaxEdits
  /\ next # formData
  /\ formData' = next
  /\ edits' = edits + 1
  /\ UNCHANGED <<laterVars, phase, resultVars, sectorVars>>

\* handleSectorChange: the variant becomes the sector's first variant
handleSectorChange ==
  \E sector \in SectorNames :
    setFormData([formData EXCEPT !.sector = sector,
                                 !.variant = Some(getSectorVariants(sector)[1].id)])

\* the variant select lists the variants of the current sector
handleVariantChange ==
  \E v \in Range(getSectorVariants(formData.sector)) :
    setFormData([formData EXCEPT !.variant = Some(v.id)])

\* the mandatory number inputs and sliders
editMandatory ==
  \/ \E v \in RevenueValues : setFormData([formData EXCEPT !.finance.annualRevenue = v])
  \/ \E v \in GrossMarginValues :
       setFormData([formData EXCEPT !.finance.grossMarginPercent = v])
  \/ \E v \in HrCostsValues : setFormData([formData EXCEPT !.costs.hrCostsPercent = v])
  \/ \E v \in FteValues : setFormData([formData EXCEPT !.ops.productivity.fte = v])
  \/ \E v \in OccupancyValues :
       setFormData([formData EXCEPT !.ops.occupancyRatePercent = v])
  \/ \E v \in DigitalizationValues :
       setFormData([formData EXCEPT !.commercial.digitalizationPercent = v])
  \/ \E v \in LoyaltyValues :
       setFormData([formData EXCEPT !.commercial.loyaltyPercent = Some(v)])
  \/ \E v \in NbServicesValues : setFormData([formData EXCEPT !.nbServices = Some(v)])

\* the optional inputs of finance and costs
editOptionalFinance ==
  \/ \E o \in OptionalInput(NetMarginValues) :
       setFormData([formData EXCEPT !.finance.netMarginPercent = o])
  \/ \E o \in OptionalInput(RunwayValues) :
       setFormData([formData EXCEPT !.finance.cashRunwayMonths = o])
  \/ \E o \in OptionalInput(CogsValues) :
       setFormData([formData EXCEPT !.costs.cogsPercent = o])
  \/ \E o \in OptionalInput(FixedCostsValues) :
       setFormData([formData EXCEPT !.costs.fixedCostsPercent = o])

\* { ...formData.hr, field: value }: the object exists from the first edit on
editHr ==
  LET hr == Coalesce(formData.hr, HRData(undefined, undefined))
  IN  \/ \E o \in OptionalInput(AbsenteeismValues) :
           setFormData([formData EXCEPT !.hr = Some([hr EXCEPT !.absenteeismRatePercent = o])])
      \/ \E o \in OptionalInput(TurnoverValues) :
           setFormData([formData EXCEPT !.hr = Some([hr EXCEPT !.turnoverRatePercent = o])])

editQuality ==
  LET q == Coalesce(formData.ops.quality, QualityData(undefined, undefined))
  IN  \/ \E o \in OptionalInput(ReturnRateValues) :
           setFormData([formData EXCEPT
                          !.ops.quality = Some([q EXCEPT !.returnRatePercent = o])])
      \/ \E o \in OptionalInput(IncidentsValues) :
           setFormData([formData EXCEPT
                          !.ops.quality = Some([q EXCEPT !.incidentsPerMonth = o])])

editSatisfaction ==
  LET s == Coalesce(formData.commercial.satisfaction, SatisfactionData(undefined, undefined))
  IN  \/ \E o \in OptionalInput(CsatValues) :
           setFormData([formData EXCEPT
                          !.commercial.satisfaction = Some([s EXCEPT !.csatPercent = o])])
      \/ \E o \in OptionalInput(NpsValues) :
           setFormData([formData EXCEPT
                          !.commercial.satisfaction = Some([s EXCEPT !.nps = o])])

EditForm ==
  \/ handleSectorChange
  \/ handleVariantChange
  \/ editMandatory
  \/ editOptionalFinance
  \/ editHr
  \/ editQuality
  \/ editSatisfaction

\* computeScoresV2(formData): a result, or the lookup error of getBenchmarks
RunScoring ==
  /\ phase = "form"
  /\ phase' = "done"
  /\ IF BenchmarksFound(formData.sector, formData.variant)
       THEN threw' = FALSE /\ scores' = Some(computeScoresV2(formData))
       ELSE threw' = TRUE /\ scores' = <<>>
  /\ UNCHANGED <<laterVars, formData, edits, scoresArg, warnings, decision, sectorVars>>

Next == EditForm \/ RunScoring

Spec == Init /\ [][Next]_vars

\* computeDecisionOutput is called with scores the caller supplies (tenths)
ScoresOf(global, financier, operationnel, commercial, strategique) ==
  [global |-> global, financier |-> financier, operationnel |-> operationnel,
   commercial |-> commercial, strategique |-> strategique]

ScoreInputs ==
  {ScoresOf(g, 800, 800, 800, 800) : g \in {350, 399, 400, 499, 500, 599, 600, 1000}}
  \cup {ScoresOf(g, 449, 800, 800, 800) : g \in {600, 1000}}
  \cup {ScoresOf(g, 440, 499, 700, 700) : g \in {600, 1000}}
  \cup {ScoresOf(1000, 1000, 900, 900, 650)}

\* getAuditWarnings(data) then computeDecisionOutput(data, scores, warnings)
RunDecision ==
  \E s \in ScoreInputs :
    /\ phase = "form"
    /\ phase' = "done"
    /\ scoresArg' = Some(s)
    /\ warnings' = getAuditWarnings(formData)
    /\ decision' = Some(computeDecisionOutput(formData, s, getAuditWarnings(formData)))
    /\ UNCHANGED <<laterVars, formData, edits, threw, scores, sectorVars>>

NextDecision == EditForm \/ RunDecision

SpecDecision == Init /\ [][NextDecision]_vars

\* the length of a sector text typed character by character
MaxRawLen == 3

\* characters typed into the sector field of an import
TypedChars == {"a", "r", "b", "V", "e'", " ", "-", "!"}

\* whole sector texts of imports
SampleTexts ==
  {<<"v", "e'", "t", "o">>,
   <<"V", "e", "t", "e", "r", "i", "n", "a", "i", "r", "e">>,
   <<"V", "E'", "T", "E'", "R", "I", "N", "A", "I", "R", "E">>,
   <<" ", "R", "e", "s", "t", "o", "\t", " ">>,
   <<"c", "l", "i", "n", "i", "q", "u", "e", "_", "v", "e", "t", "e", "r", "i", "n",
     "a", "i", "r", "e">>,
   <<"C", "l", "i", "n", "i", "q", "u", "e", " ", " ", "V", "e'", "t", "o">>,
   <<"c", "o", "n", "s", "t", "r", "u", "c", "t", "o", "r">>,
   <<"C", "o", "n", "s", "t", "r", "u", "c", "t", "o", "r", "!">>,
   <<"z", "z", "z">>,
   <<"B", "2", "B">>,
   <<"?", "?", "?">>,
   <<>>}

\* the sector text of an import grows by one character
TypeChar ==
  \E c \in TypedChars :
    /\ phase = "form"
    /\ Len(Coalesce(rawValue, <<>>)) < MaxRawLen
    /\ rawValue' = Some(Append(Coalesce(rawValue, <<>>), c))
    /\ UNCHANGED <<laterVars, formData, edits, phase, resultVars, sectorResult>>

\* the sector text of an import is given whole
PasteText ==
  \E t \in SampleTexts :
    /\ phase = "form"
    /\ rawValue = <<>>
    /\ rawValue' = Some(t)
    /\ UNCHANGED <<laterVars, formData, edits, phase, resultVars, sectorResult>>

\* validateAndMapSector(rawValue)
RunSectorValidation ==
  /\ phase = "form"
  /\ phase' = "done"
  /\ sectorResult' = Some(validateAndMapSector(rawValue))
  /\ UNCHANGED <<laterVars, formData, edits, resultVars, rawValue>>

NextSector == TypeChar \/ PasteText \/ RunSectorValidation

SpecSector == Init /\ [][NextSector]_vars


-----------------------------------------------------------------------------
(* Benchmark lookup on its own *)

\* every variant identifier of the table
AllVariantIds == UNION {{v.id : v \in Range(s.variants)} : s \in Range(PARAM_SECTEUR)}

\* sector arguments: the keys of the table, the sector of defaultAuditDataV2,
\* a canonical identifier of sectorValidation, and inherited property names
LookupSectors == SectorNames \cup {"Veterinaire", "veterinaire", "", "constructor", "__proto__"}

\* variant arguments: omitted, empty, the identifiers of the table, an unknown
\* identifier and inherited property names
LookupVariants ==
  {undefined} \cup {Some(v) : v \in AllVariantIds \cup {"", "premium", "constructor", "toString"}}

ChooseLookup ==
  \E s \in LookupSectors, v \in LookupVariants :
    /\ lookup = <<>>
    /\ lookup' = Some([secteur |-> s, variant |-> v])
    /\ UNCHANGED <<formData, edits, phase, resultVars, sectorVars, uiVars, lookupResult,
                   simVars, contextVars, importVars>>

\* getBenchmarks(secteur, variant)
RunLookup ==
  /\ lookup # <<>>
  /\ lookupResult = <<>>
  /\ lookupResult' = Some(getBenchmarksCall(Get(lookup).secteur, Get(lookup).variant))
  /\ UNCHANGED <<formData, edits, phase, resultVars, sectorVars, uiVars, lookup,
                 simVars, contextVars, importVars>>

NextLookup == ChooseLookup \/ RunLookup

SpecLookup == Init /\ [][NextLookup]_vars

-----------------------------------------------------------------------------
(* simulationEngine.ts *)

\* the record as the engine reads it: the value found at each property path
\* of AuditDataV2, <<>> where the property is undefined
Properties(v2) ==
  (<<"finance", "annualRevenue">> :> Some(v2.finance.annualRevenue))
  @@ (<<"finance", "grossMarginPercent">> :> Some(v2.finance.grossMarginPercent))
  @@ (<<"finance", "netMarginPercent">> :> v2.finance.netMarginPercent)
  @@ (<<"finance", "cashRunwayMonths">> :> v2.finance.cashRunwayMonths)
  @@ (<<"costs", "hrCostsPercent">> :> Some(v2.costs.hrCostsPercent))
  @@ (<<"costs", "cogsPercent">> :> v2.costs.cogsPercent)
  @@ (<<"costs", "fixedCostsPercent">> :> v2.costs.fixedCostsPercent)
  @@ (<<"ops", "occupancyRatePercent">> :> Some(v2.ops.occupancyRatePercent))
  @@ (<<"ops", "productivity", "fte">> :> Some(v2.ops.productivity.fte))
  @@ (<<"ops", "quality", "returnRatePercent">> :> qualityReturnRate(v2))
  @@ (<<"ops", "quality", "incidentsPerMonth">> :>
        (IF v2.ops.quality = undefined THEN undefined ELSE qualityIncidents(v2)))
  @@ (<<"hr", "absenteeismRatePercent">> :> hrAbsenteeism(v2))
  @@ (<<"hr", "turnoverRatePercent">> :> hrTurnover(v2))
  @@ (<<"commercial", "digitalizationPercent">> :> Some(v2.commercial.digitalizationPercent))
  @@ (<<"commercial", "loyaltyPercent">> :> v2.commercial.loyaltyPercent)
  @@ (<<"commercial", "satisfaction", "csatPercent">> :> satisfactionCsat(v2))
  @@ (<<"commercial", "satisfaction", "nps">> :> satisfactionNps(v2))
  @@ (<<"nbServices">> :> v2.nbServices)

\* the value at a property path: a path the record does not have is undefined
ValueAt(data, path) == IF path \in DOMAIN data THEN data[path] ELSE undefined

\* safeNumber(value, fallback)
safeNumber(value, fallback) == Coalesce(value, fallback)

\* x * n / d for integers n and d > 0
Times(x, n, d) == RDiv(RScale(x, n), d)

\* Math.round of an amount held in thousands of euros, in euros: the nearest
\* integer, halves going up
RoundEuros(x) ==
  LET e == RScale(x, 1000)
  IN  (2 * e.n + e.d) \div (2 * e.d)

calculateConfidence(dataCompleteness, simulationType) ==
  IF simulationType = "RH"
  THEN IF RLe(Frac(8, 10), dataCompleteness) THEN "MOYEN" ELSE "FAIBLE"
  ELSE IF RLe(Frac(9, 10), dataCompleteness) THEN "BON"
  ELSE IF RLe(Frac(7, 10), dataCompleteness) THEN "MOYEN"
  ELSE "FAIBLE"

\* checkDataCompleteness: the fraction of the required paths whose value is
\* neither undefined nor null
checkDataCompleteness(data, requiredFields) ==
  Frac(Cardinality({i \in 1..Len(requiredFields) :
                      ValueAt(data, requiredFields[i]) # undefined}),
       Len(requiredFields))

\* inputs.name || 0
delta(inputs, name) == IF name \in DOMAIN inputs THEN Coalesce(inputs[name], 0) ELSE 0

\* the ids pushed to inputsList: the deltas that are not zero, in order
inputsListOf(inputs, names) == SelectSeq(names, LAMBDA n : delta(inputs, n) # 0)

\* a SimulationResult; impactMin and impactMax are <<>> when the number is NaN
SimulationResult(type, inputs, totalMin, totalMax, confidenceLevel, priority) ==
  [type |-> type, inputs |-> inputs,
   impactMin |-> Some(RoundEuros(totalMin)), impactMax |-> Some(RoundEuros(totalMax)),
   confidenceLevel |-> confidenceLevel, priority |-> priority]

caAnnuelOf(data) == safeNumber(ValueAt(data, <<"finance", "annualRevenue">>), 0)

simulateTresorerie(data, inputs) ==
  LET caAnnuel == caAnnuelOf(data)
      chargesRhPct == safeNumber(ValueAt(data, <<"costs", "hrCostsPercent">>), 0)
      chargesFixes == Frac(caAnnuel * chargesRhPct, 1200)
      delaiClient == delta(inputs, "delai_client")
      delaiFournisseur == delta(inputs, "delai_fournisseur")
      reductionCharges == delta(inputs, "reduction_charges")
      gainDelaiClient == Frac(Abs(delaiClient) * caAnnuel, 365)
      gainDelaiFournisseur == Frac(delaiFournisseur * caAnnuel * 3, 3600)
      gainChargesFixes == Times(chargesFixes, Abs(reductionCharges) * 12, 100)
      totalMin == RAdd(RAdd(Times(gainDelaiClient, 6, 10), Times(gainDelaiFournisseur, 5, 10)),
                       Times(gainChargesFixes, 7, 10))
      totalMax == RAdd(RAdd(Times(gainDelaiClient, 8, 10), Times(gainDelaiFournisseur, 7, 10)),
                       Times(gainChargesFixes, 9, 10))
      completeness ==
        checkDataCompleteness(data, <<<<"finance", "caAnnuel">>,
                                      <<"finance", "chargesFixesMensuelles">>,
                                      <<"finance", "tresorerieNette">>>>)
  IN  IF caAnnuel = 0 THEN undefined
      ELSE IF delaiClient = 0 /\ delaiFournisseur = 0 /\ reductionCharges = 0 THEN undefined
      ELSE Some(SimulationResult(
             "TRESORERIE",
             inputsListOf(inputs, <<"delai_client", "delai_fournisseur", "reduction_charges">>),
             totalMin, totalMax, calculateConfidence(completeness, "TRESORERIE"), 1))

simulateRentabilite(data, inputs) ==
  LET caAnnuel == caAnnuelOf(data)
      margeBrute == safeNumber(ValueAt(data, <<"finance", "grossMarginPercent">>), 0)
      chargesRh == safeNumber(ValueAt(data, <<"costs", "hrCostsPercent">>), 0)
      hausseMarge == delta(inputs, "marge_brute")
      reductionCogs == delta(inputs, "reduction_cogs")
      reductionRh == delta(inputs, "reduction_rh")
      gainMarge == Frac(hausseMarge * caAnnuel, 100)
      cogs == Frac(caAnnuel * (100 - margeBrute), 100)
      gainCogs == Times(cogs, Abs(reductionCogs), 100)
      chargesRhAnnuel == Frac(caAnnuel * chargesRh, 100)
      gainRh == Times(chargesRhAnnuel, Abs(reductionRh), 100)
      totalMin == RAdd(RAdd(Times(gainMarge, 7, 10), Times(gainCogs, 60, 100)),
                       Times(gainRh, 50, 100))
      totalMax == RAdd(RAdd(Times(gainMarge, 9, 10), Times(gainCogs, 85, 100)),
                       Times(gainRh, 75, 100))
      completeness ==
        checkDataCompleteness(data, <<<<"finance", "caAnnuel">>,
                                      <<"finance", "margeBrutePct">>,
                                      <<"costs", "chargesRhPct">>>>)
  IN  IF caAnnuel = 0 THEN undefined
      ELSE IF hausseMarge = 0 /\ reductionCogs = 0 /\ reductionRh = 0 THEN undefined
      ELSE Some(SimulationResult(
             "RENTABILITE",
             inputsListOf(inputs, <<"marge_brute", "reduction_cogs", "reduction_rh">>),
             totalMin, totalMax, calculateConfidence(completeness, "RENTABILITE"), 2))

simulateActivite(data, inputs) ==
  LET caAnnuel == caAnnuelOf(data)
      hausseOccupation == delta(inputs, "taux_occupation")
      hausseProductivite == delta(inputs, "ca_par_etp")
      gainOccupationTheorique == Frac(hausseOccupation * caAnnuel, 100)
      gainProductiviteTheorique == Frac(hausseProductivite * caAnnuel, 100)
      totalMin == RAdd(Times(gainOccupationTheorique, 50, 100),
                       Times(gainProductiviteTheorique, 60, 100))
      totalMax == RAdd(Times(gainOccupationTheorique, 75, 100),
                       Times(gainProductiviteTheorique, 85, 100))
      completeness ==
        checkDataCompleteness(data, <<<<"finance", "caAnnuel">>,
                                      <<"ops", "tauxOccupation">>,
                                      <<"productivity", "effectifETP">>>>)
  IN  IF caAnnuel = 0 THEN undefined
      ELSE IF hausseOccupation = 0 /\ hausseProductivite = 0 THEN undefined
      ELSE Some(SimulationResult(
             "ACTIVITE", inputsListOf(inputs, <<"taux_occupation", "ca_par_etp">>),
             totalMin, totalMax, calculateConfidence(completeness, "ACTIVITE"), 3))

simulateCommercial(data, inputs) ==
  LET caAnnuel == caAnnuelOf(data)
      hausseConversion == delta(inputs, "taux_conversion")
      haussePanier == delta(inputs, "panier_moyen")
      gainConversionTheorique == Frac(hausseConversion * caAnnuel, 100)
      gainPanierTheorique == Frac(haussePanier * caAnnuel, 100)
      totalMin == RAdd(Times(gainConversionTheorique, 3, 10), Times(gainPanierTheorique, 5, 10))
      totalMax == RAdd(Times(gainConversionTheorique, 6, 10), Times(gainPanierTheorique, 8, 10))
      completeness ==
        checkDataCompleteness(data, <<<<"finance", "caAnnuel">>,
                                      <<"commercial", "panierMoyen">>,
                                      <<"commercial", "digitalPct">>>>)
  IN  IF caAnnuel = 0 THEN undefined
      ELSE IF hausseConversion = 0 /\ haussePanier = 0 THEN undefined
      ELSE Some(SimulationResult(
             "COMMERCIAL", inputsListOf(inputs, <<"taux_conversion", "panier_moyen">>),
             totalMin, totalMax, calculateConfidence(completeness, "COMMERCIAL"), 4))

\* simulateRH: effectif (fte, in tenths) cancels out of both gains; with an
\* effectif of 0 the divisions give Infinity and 0 * Infinity is NaN
simulateRH(data, inputs) ==
  LET caAnnuel == caAnnuelOf(data)
      chargesRh == safeNumber(ValueAt(data, <<"costs", "hrCostsPercent">>), 0)
      effectif == safeNumber(ValueAt(data, <<"ops", "productivity", "fte">>), 10)
      baisseTurnover == delta(inputs, "turnover")
      baisseAbsenteisme == delta(inputs, "absenteisme")
      chargesRhAnnuel == Frac(caAnnuel * chargesRh, 100)
      coutRecrutement == Times(chargesRhAnnuel, 4, 10)
      gainTurnover == Times(coutRecrutement, Abs(baisseTurnover), 100)
      gainAbsenteisme == Frac(caAnnuel * Abs(baisseAbsenteisme), 100)
      totalMin == RAdd(Times(gainTurnover, 4, 10), Times(gainAbsenteisme, 3, 10))
      totalMax == RAdd(Times(gainTurnover, 7, 10), Times(gainAbsenteisme, 5, 10))
      completeness ==
        checkDataCompleteness(data, <<<<"finance", "caAnnuel">>,
                                      <<"costs", "chargesRhPct">>,
                                      <<"productivity", "effectifETP">>,
                                      <<"quality", "turnoverAnnuel">>,
                                      <<"quality", "tauxAbsenteisme">>>>)
      result == SimulationResult("RH", inputsListOf(inputs, <<"turnover", "absenteisme">>),
                                 totalMin, totalMax,
                                 calculateConfidence(completeness, "RH"), 5)
  IN  IF caAnnuel = 0 THEN undefined
      ELSE IF baisseTurnover = 0 /\ baisseAbsenteisme = 0 THEN undefined
      ELSE IF effectif = 0
        THEN Some([result EXCEPT !.impactMin = undefined, !.impactMax = undefined])
      ELSE Some(result)

\* runSimulation with the RENTABILITE case falling into the TRESORERIE one
runSimulation_WrongCase(type, data, inputs) ==
  CASE type = "TRESORERIE" -> simulateTresorerie(data, inputs)
    [] type = "RENTABILITE" -> simulateTresorerie(data, inputs)
    [] type = "ACTIVITE" -> simulateActivite(data, inputs)
    [] type = "COMMERCIAL" -> simulateCommercial(data, inputs)
    [] type = "RH" -> simulateRH(data, inputs)
    [] OTHER -> undefined

runSimulation(type, data, inputs) ==
  CASE type = "TRESORERIE" -> simulateTresorerie(data, inputs)
    [] type = "RENTABILITE" -> simulateRentabilite(data, inputs)
    [] type = "ACTIVITE" -> simulateActivite(data, inputs)
    [] type = "COMMERCIAL" -> simulateCommercial(data, inputs)
    [] type = "RH" -> simulateRH(data, inputs)
    [] OTHER -> undefined

\* the named deltas each scenario reads from its inputs
DeltaNames ==
  [TRESORERIE |-> {"delai_client", "delai_fournisseur", "reduction_charges"},
   RENTABILITE |-> {"marge_brute", "reduction_cogs", "reduction_rh"},
   ACTIVITE |-> {"taux_occupation", "ca_par_etp"},
   COMMERCIAL |-> {"taux_conversion", "panier_moyen"},
   RH |-> {"turnover", "absenteisme"}]

SimulationTypes == DOMAIN DeltaNames

\* the value of a delta: missing, zero, negative, positive
DeltaInputs == {undefined, Some(0), Some(-10), Some(5)}

\* the records handed to the engine: the form record, also with a revenue of
\* zero or without revenue, and with an effectif of zero
SimulationRecords ==
  LET p == Properties(formData)
  IN  {p,
       [p EXCEPT ![<<"finance", "annualRevenue">>] = Some(0)],
       [p EXCEPT ![<<"finance", "annualRevenue">>] = undefined],
       [p EXCEPT ![<<"ops", "productivity", "fte">>] = Some(0)],
       [p EXCEPT ![<<"ops", "productivity", "fte">>] = undefined]}

\* the panel is set to a scenario and its sliders to some deltas
handleSimulate ==
  \E type \in SimulationTypes, data \in SimulationRecords :
    \E inputs \in [DeltaNames[type] -> DeltaInputs] :
      /\ simulation = <<>>
      /\ simulation' = Some([type |-> type, data |-> data, inputs |-> inputs])
      /\ UNCHANGED <<formData, edits, phase, resultVars, sectorVars, uiVars, benchVars,
                     simResult, contextVars, importVars>>

\* a call with the deltas of another scenario, or with a type the switch does
\* not know
handleSimulateOther ==
  \E type \in SimulationTypes \cup {"AUTRE"}, other \in SimulationTypes :
    \E inputs \in [DeltaNames[other] -> {Some(5)}] :
      /\ simulation = <<>>
      /\ type # other
      /\ simulation' = Some([type |-> type, data |-> Properties(formData), inputs |-> inputs])
      /\ UNCHANGED <<formData, edits, phase, resultVars, sectorVars, uiVars, benchVars,
                     simResult, contextVars, importVars>>

\* runSimulation(type, normalizedData, inputs)
RunSimulation ==
  /\ simulation # <<>>
  /\ simResult = <<>>
  /\ simResult' = Some([value |-> runSimulation(Get(simulation).type, Get(simulation).data,
                                                 Get(simulation).inputs)])
  /\ UNCHANGED <<formData, edits, phase, resultVars, sectorVars, uiVars, benchVars,
                 simulation, contextVars, importVars>>

NextSimulation == handleSimulate \/ handleSimulateOther \/ RunSimulation

SpecSimulation == Init /\ [][NextSimulation]_vars
-----------------------------------------------------------------------------
(* contexts/AuditContext.tsx: the audit state and its three operations, with
   the V1 record of types/audit.ts and the scorer of lib/scoring.ts that the
   context imports *)

\* the number of context operations in one run
MaxCalls == 3

\* AuditDataV1; percentages as integers, caannuel in thousands, effectifetp in
\* tenths, tauxoccupation (a ratio in the source) times 100
AuditDataV1(secteur, variant, margebrutepct, caannuel, effectifetp, chargesrhpct, digitalpct, fidelisationpct, tauxoccupation, nbservices) ==
  [secteur |-> secteur, variant |-> variant, margebrutepct |-> margebrutepct,
   caannuel |-> caannuel, effectifetp |-> effectifetp,
   chargesrhpct |-> chargesrhpct, digitalpct |-> digitalpct,
   fidelisationpct |-> fidelisationpct, tauxoccupation |-> tauxoccupation,
   nbservices |-> nbservices]

\* defaultAuditDataV1: like the V2 default, its secteur carries no accent
defaultAuditDataV1 ==
  AuditDataV1("Veterinaire", Some("veto_standard"), 68, 450, 45, 52, 85, 88, 85, 5)

\* 'finance' in data && 'ops' in data && 'commercial' in data
isAuditDataV2(data) == {"finance", "ops", "commercial"} \subseteq DOMAIN data

convertV1ToV2(v1) ==
  AuditDataV2(v1.secteur, v1.variant,
              FinanceData(v1.caannuel, v1.margebrutepct, undefined, undefined),
              CostsData(v1.chargesrhpct, undefined, undefined),
              OpsData(v1.tauxoccupation, v1.effectifetp, undefined),
              undefined,
              CommercialData(v1.digitalpct, Some(v1.fidelisationpct), undefined),
              Some(v1.nbservices))

normalizeToV2(data) == IF isAuditDataV2(data) THEN data ELSE convertV1ToV2(data)

\* data.secteur and data.variant as computeScores4D reads them: a V2 record has
\* no secteur property, so the read gives undefined, which the table lookup
\* turns into the key "undefined"
secteurOf(data) == IF "secteur" \in DOMAIN data THEN data.secteur ELSE "undefined"

\* getBenchmarks(data.secteur, data.variant) throws, or returns undefined and
\* the first threshold read throws
computeScores4DThrows(data) ==
  LET call == getBenchmarksCall(secteurOf(data), data.variant)
  IN  call.outcome # "returned" \/ call.metrics = undefined

\* the 25 / 20 / 10 / 0 steps of one financial metric
stepOf(isExcellent, isBon, isCrit, high, mid, low) ==
  IF isExcellent THEN high ELSE IF isBon THEN mid ELSE IF isCrit THEN low ELSE 0

\* Math.min(100, Math.max(0, x))
clamp100(x) == IF x < 0 THEN 0 ELSE IF x > 100 THEN 100 ELSE x

\* computeScores4D of lib/scoring.ts on a V1 record whose benchmarks are found
computeScores4D(data) ==
  LET benchmarks == Get(getBenchmarksCall(data.secteur, data.variant).metrics)
      mbT == benchmarks.marge_brute.thresholds
      caT == benchmarks.ca_etp.thresholds
      rhT == benchmarks.charges_rh.thresholds
      dpT == benchmarks.digital_pct.thresholds
      fidT == benchmarks.fidelisation.thresholds
      caEtp == caEtpOf(data.caannuel, data.effectifetp)
      scoreFinancier ==
        clamp100(stepOf(data.margebrutepct >= mbT.excellent,
                        data.margebrutepct >= mbT.bon,
                        data.margebrutepct >= mbT.crit, 25, 20, 10)
                 + stepOf(RLe(RInt(caT.excellent), caEtp), RLe(RInt(caT.bon), caEtp),
                          RLe(RInt(caT.crit), caEtp), 25, 20, 10)
                 + stepOf(data.chargesrhpct <= rhT.excellent,
                          data.chargesrhpct <= rhT.bon,
                          data.chargesrhpct <= rhT.crit, 25, 20, 10)
                 + 25)
      t == data.tauxoccupation
      scoreOperationnel ==
        IF t >= 95 THEN RInt(100)
        ELSE IF t >= 85 THEN RInt(80)
        ELSE IF t >= 75 THEN RInt(60)
        ELSE IF t >= 60 THEN RInt(40)
        ELSE RMax(RInt(0), Frac(t * 66, 100))
      scoreCommercial ==
        clamp100(stepOf(data.digitalpct >= dpT.excellent, data.digitalpct >= dpT.bon,
                        data.digitalpct >= dpT.crit, 50, 40, 20)
                 + stepOf(data.fidelisationpct >= fidT.excellent,
                          data.fidelisationpct >= fidT.bon,
                          data.fidelisationpct >= fidT.crit, 50, 40, 20))
      scoreStrategique == clamp100(40 + data.nbservices * 10)
      scoreGlobal ==
        RoundTenths(globalRawOf(RInt(scoreFinancier), scoreOperationnel,
                                RInt(scoreCommercial), RInt(scoreStrategique), 0))
  IN  ScoresOf(scoreGlobal, scoreFinancier * 10, RoundTenths(scoreOperationnel),
               scoreCommercial * 10, scoreStrategique * 10)

\* the state object both submitAudit and importAuditFromData set once the
\* three computations have returned
computedState(data, meta) ==
  LET computedScores == computeScores4D(data)
      warns == getAuditWarnings(normalizeToV2(data))
  IN  [auditData |-> Some(data),
       scores |-> Some(computedScores),
       warnings |-> warns,
       decision |-> Some(computeDecisionOutput(normalizeToV2(data), computedScores, warns)),
       isCalculating |-> FALSE,
       isPdfGenerating |-> FALSE,
       importMeta |-> meta,
       importWarnings |-> <<>>]

\* a throw inside the callback leaves only setState(prev => ({...prev,
\* isCalculating: true})) applied
calculatingState(prev) == [prev EXCEPT !.isCalculating = TRUE]

\* the records the V1 form of components/AuditForm.tsx submits: its default,
\* and the default after the sector select, the margin and the occupancy inputs
\* have been used
SubmittedV1 ==
  {defaultAuditDataV1}
  \cup {[defaultAuditDataV1 EXCEPT !.secteur = s, !.variant = undefined,
                                   !.margebrutepct = m, !.tauxoccupation = t] :
          s \in {"Ve'te'rinaire", "Commerce"}, m \in {68, 30}, t \in {85, 50}}

\* the records DataImportModule hands over as AuditDataV2
ImportedV2 == {importedRecord, completeRecord}

\* the meta object of an import
ImportMetas ==
  {[dataOrigin |-> o, importHash |-> "hash"] :
     o \in {"declaratif_client", "excel_champ_valeur"}}

otherVarsOfContext == <<formData, edits, phase, resultVars, sectorVars, uiVars,
                        benchVars, simVars, importVars>>

\* submitAudit that stores the new record and scores but keeps the decision of
\* the record before
submitAudit_StaleDecision(data) ==
  /\ calls < MaxCalls
  /\ calls' = calls + 1
  /\ auditState' = IF computeScores4DThrows(data)
                     THEN calculatingState(auditState)
                     ELSE [computedState(data, undefined)
                             EXCEPT !.decision = auditState.decision]
  /\ UNCHANGED otherVarsOfContext

submitAudit(data) ==
  /\ calls < MaxCalls
  /\ calls' = calls + 1
  /\ auditState' = IF computeScores4DThrows(data)
                     THEN calculatingState(auditState)
                     ELSE computedState(data, undefined)
  /\ UNCHANGED otherVarsOfContext

importAuditFromData(data, meta) ==
  /\ calls < MaxCalls
  /\ calls' = calls + 1
  /\ auditState' = IF computeScores4DThrows(data)
                     THEN calculatingState(auditState)
                     ELSE computedState(data, Some(meta))
  /\ UNCHANGED otherVarsOfContext

resetAudit ==
  /\ calls < MaxCalls
  /\ calls' = calls + 1
  /\ auditState' = initialAuditState
  /\ UNCHANGED otherVarsOfContext

\* handleSubmit of the form: onSubmit(formData)
SubmitForm == \E data \in SubmittedV1 \cup {formData} : submitAudit(data)

\* handleImport of DataImportModule
ImportData ==
  \E data \in ImportedV2, meta \in ImportMetas :
    importAuditFromData(data, meta)

NextContext == SubmitForm \/ ImportData \/ resetAudit

SpecContext == Init /\ [][NextContext]_vars
-----------------------------------------------------------------------------
(* lib/decisionEngine.ts, import layer: parseValue, parseExcelChampValeur,
   validateJsonImport, validateExcelData and the two converters.  Texts are
   sequences of one-character strings; amounts are in thousands. *)

\* the longest value text of an import cell
MaxValueLen == 2

DigitChars == <<"0", "1", "2", "3", "4", "5", "6", "7", "8", "9">>

DigitValue(c) == (CHOOSE i \in 1..10 : DigitChars[i] = c) - 1

\* the value of a run of decimal digits
RECURSIVE DigitsValue(_)
DigitsValue(s) ==
  IF s = <<>> THEN 0
  ELSE 10 * DigitsValue(SubSeq(s, 1, Len(s) - 1)) + DigitValue(s[Len(s)])

\* the longest prefix of decimal digits
RECURSIVE DigitPrefix(_)
DigitPrefix(s) ==
  IF s # <<>> /\ Head(s) \in Digits THEN <<Head(s)>> \o DigitPrefix(Tail(s)) ELSE <<>>

\* parseFloat on a text without decimal point or exponent: an optional sign
\* and the longest run of digits after it; <<>> is NaN
parseFloat(s) ==
  LET negative == s # <<>> /\ Head(s) = "-"
      unsigned == IF s # <<>> /\ Head(s) \in {"-", "+"} THEN Tail(s) ELSE s
      digits == DigitPrefix(unsigned)
  IN  IF digits = <<>> THEN undefined
      ELSE Some(IF negative THEN -DigitsValue(digits) ELSE DigitsValue(digits))

\* Number(text): the whole trimmed text must be a number; the empty text is 0
NumberOfText(s) ==
  LET t == trim(s)
      unsigned == IF t # <<>> /\ Head(t) \in {"-", "+"} THEN Tail(t) ELSE t
  IN  IF t = <<>> THEN Some(0)
      ELSE IF unsigned # <<>> /\ DigitPrefix(unsigned) = unsigned THEN parseFloat(t)
      ELSE undefined

\* the values JSON.parse and parseValue produce
JNull == [t |-> "null"]
JNum(n) == [t |-> "number", n |-> n]
JStr(s) == [t |-> "string", s |-> s]
JBool(b) == [t |-> "boolean", b |-> b]

\* Number(value) of a present value; <<>> is NaN
NumberOf(v) ==
  IF v.t = "number" THEN Some(v.n)
  ELSE IF v.t = "string" THEN NumberOfText(v.s)
  ELSE IF v.t = "boolean" THEN Some(IF v.b THEN 1 ELSE 0)
  ELSE Some(0)

\* Number(getNestedValue(data, path)): Number(undefined) is NaN
NumberAt(data, path) == IF data[path] = undefined THEN undefined ELSE NumberOf(Get(data[path]))

\* safeNum of both converters
safeNum(val) ==
  IF val = undefined \/ Get(val).t = "null" THEN undefined ELSE NumberOf(Get(val))

\* parseValue: undefined for a blank cell, a number when parseFloat reads one
\* from the cleaned text, else the trimmed text
parseValue(value) ==
  IF value = <<>> \/ trim(value) = <<>> THEN undefined
  ELSE LET cleaned == SelectSeq(trim(value),
                                LAMBDA c : c \notin Whitespace \cup {"EUR", "%"})
           num == parseFloat(cleaned)
       IN  IF num # undefined THEN Some(JNum(Get(num))) ELSE Some(JStr(trim(value)))

ImportPaths ==
  {"meta.companyName", "meta.sector", "meta.year",
   "finance.caAnnuel", "finance.resultatNet", "finance.tresorerie",
   "finance.dettesFinancieres", "finance.fondsPropres",
   "costs.chargesRH", "costs.cogs", "costs.chargesFixes",
   "operations.effectifETP", "operations.tauxOccupation", "operations.qualiteRetours",
   "commercial.digitalisation", "commercial.satisfactionClient",
   "rh.absenteisme", "rh.turnover"}

requiredPaths ==
  <<"meta.companyName", "meta.sector", "meta.year",
    "finance.caAnnuel", "finance.resultatNet", "finance.tresorerie",
    "finance.dettesFinancieres", "finance.fondsPropres">>

numericFields ==
  <<"meta.year", "finance.caAnnuel", "finance.resultatNet", "finance.tresorerie",
    "finance.dettesFinancieres", "finance.fondsPropres",
    "costs.chargesRH", "costs.cogs", "costs.chargesFixes",
    "operations.effectifETP", "operations.tauxOccupation", "operations.qualiteRetours",
    "commercial.digitalisation", "commercial.satisfactionClient",
    "rh.absenteisme", "rh.turnover">>

\* parseExcelChampValeur on rows already mapped to their paths: rows[path] is
\* the value text of the row of that field, <<>> when the sheet has no such row
parseExcelChampValeur(rows) ==
  LET data == [p \in ImportPaths |->
                 IF rows[p] = undefined THEN undefined ELSE parseValue(Get(rows[p]))]
  IN  [missingRequired |-> SelectSeq(requiredPaths, LAMBDA p : data[p] = undefined),
       data |-> data]

ImportValidationResult(isValid, errors, warns, parsedData) ==
  [threw |-> FALSE, isValid |-> isValid, errors |-> errors, warnings |-> warns,
   parsedData |-> parsedData]

\* validateAndMapSector(rawSector as string | undefined) reads rawValue.trim():
\* a truthy value that is no string has no trim method
ImportThrown ==
  [threw |-> TRUE, isValid |-> FALSE, errors |-> <<>>, warnings |-> <<>>,
   parsedData |-> undefined]

sectorCallThrows(rawSector) ==
  /\ rawSector # undefined
  /\ \/ Get(rawSector).t = "number" /\ Get(rawSector).n # 0
     \/ Get(rawSector).t = "boolean" /\ Get(rawSector).b

\* validateAndMapSector on the value at meta.sector when the call returns
sectorResultOf(rawSector) ==
  IF rawSector # undefined /\ Get(rawSector).t = "string"
  THEN validateAndMapSector(Some(Get(rawSector).s))
  ELSE validateAndMapSector(undefined)

\* value ?? fallback
Nullish(value, fallback) == IF value = undefined THEN fallback ELSE Get(value)

\* convertToAuditDataV2 and convertExcelDataToAuditV2 build the same record;
\* sector is SECTOR_LABELS[sector], undefined when sector is no key of it
convertToAuditDataV2(data, canonicalSector) ==
  AuditDataV2(labelOf(canonicalSector), undefined,
              FinanceData(Nullish(safeNum(data["finance.caAnnuel"]), 0), 70,
                          undefined, undefined),
              CostsData(Nullish(safeNum(data["costs.chargesRH"]), 50),
                        safeNum(data["costs.cogs"]),
                        safeNum(data["costs.chargesFixes"])),
              OpsData(Nullish(safeNum(data["operations.tauxOccupation"]), 80),
                      10 * Nullish(safeNum(data["operations.effectifETP"]), 1),
                      IF data["operations.qualiteRetours"] # undefined
                        THEN Some(QualityData(safeNum(data["operations.qualiteRetours"]),
                                              undefined))
                        ELSE undefined),
              IF data["rh.absenteisme"] # undefined \/ data["rh.turnover"] # undefined
                THEN Some(HRData(safeNum(data["rh.absenteisme"]),
                                 safeNum(data["rh.turnover"])))
                ELSE undefined,
              CommercialData(Nullish(safeNum(data["commercial.digitalisation"]), 50),
                             undefined,
                             IF data["commercial.satisfactionClient"] # undefined
                               THEN Some(SatisfactionData(
                                      safeNum(data["commercial.satisfactionClient"]),
                                      undefined))
                               ELSE undefined),
              Some(1))

convertExcelDataToAuditV2(data, canonicalSector) ==
  convertToAuditDataV2(data, canonicalSector)

\* Number(value) is a number and passes the test; false for NaN, which is
\* what !isNaN(n) && test(n) and value !== undefined && test(Number(value))
\* both give
numberAbove(data, path, limit) ==
  NumberAt(data, path) # undefined /\ Get(NumberAt(data, path)) > limit

numberBelow(data, path, limit) ==
  NumberAt(data, path) # undefined /\ Get(NumberAt(data, path)) < limit

\* the warnings of both validators: sector, treasury, turnover, HR costs
importWarningsOf(data, sectorRes) ==
  PushIf(sectorRes.warning # undefined, "meta.sector")
  \o PushIf(numberBelow(data, "finance.tresorerie", -1000), "finance.tresorerie")
  \o PushIf(numberAbove(data, "rh.turnover", 60), "rh.turnover")
  \o PushIf(numberAbove(data, "costs.chargesRH", 80), "costs.chargesRH")

\* validateJsonImport; input.syntaxError says that JSON.parse throws, else
\* input.data holds the value at each path, <<>> where the document has none
validateJsonImport(input) ==
  IF input.syntaxError
  THEN ImportValidationResult(FALSE, <<"json">>, <<>>, undefined)
  ELSE
    LET data == input.data
        missing ==
          SelectSeq(requiredPaths,
                    LAMBDA p : \/ data[p] = undefined
                               \/ Get(data[p]).t = "null"
                               \/ /\ Get(data[p]).t = "string"
                                  /\ Get(data[p]).s = <<>>)
        notNumbers ==
          SelectSeq(numericFields,
                    LAMBDA p : /\ data[p] # undefined
                               /\ Get(data[p]).t \notin {"null", "number"}
                               /\ NumberOf(Get(data[p])) = undefined)
        errors ==
          missing \o notNumbers
          \o PushIf(numberBelow(data, "finance.caAnnuel", 1), "finance.caAnnuel")
          \o PushIf(numberAbove(data, "operations.tauxOccupation", 100),
                    "operations.tauxOccupation")
        rawSector == data["meta.sector"]
        sectorRes == sectorResultOf(rawSector)
        warns == importWarningsOf(data, sectorRes)
    IN  IF sectorCallThrows(rawSector) THEN ImportThrown
        ELSE IF errors = <<>>
          THEN ImportValidationResult(TRUE, errors, warns,
                 Some(convertToAuditDataV2(data, sectorRes.canonicalSector)))
        ELSE ImportValidationResult(FALSE, errors, warns, undefined)

\* validateExcelData
validateExcelData(excelResult) ==
  LET data == excelResult.data
      errors ==
        excelResult.missingRequired
        \o PushIf(numberBelow(data, "finance.caAnnuel", 1), "finance.caAnnuel")
        \o PushIf(numberAbove(data, "operations.tauxOccupation", 100),
                  "operations.tauxOccupation")
      rawSector == data["meta.sector"]
      sectorRes == sectorResultOf(rawSector)
      warns == importWarningsOf(data, sectorRes)
  IN  IF sectorCallThrows(rawSector) THEN ImportThrown
      ELSE IF errors = <<>>
        THEN ImportValidationResult(TRUE, errors, warns,
               Some(convertExcelDataToAuditV2(data, sectorRes.canonicalSector)))
      ELSE ImportValidationResult(FALSE, errors, warns, undefined)

\* the characters of the value texts of the imports
ValueChars == {"0", "5", "-", "a", "%", " "}

RECURSIVE TextsOfLen(_)
TextsOfLen(n) ==
  IF n = 0 THEN {<<>>}
  ELSE {Append(t, c) : t \in TextsOfLen(n - 1), c \in ValueChars}

ValueTexts == UNION {TextsOfLen(n) : n \in 0..MaxValueLen}

\* what an import holds as its annual revenue: a pasted sheet a text or no
\* row, a JSON document any JSON value or no property
ExcelRevenues == {undefined} \cup {Some(t) : t \in ValueTexts}

JsonRevenues ==
  {undefined, Some(JNull), Some(JBool(TRUE)), Some(JBool(FALSE))}
  \cup {Some(JNum(n)) : n \in {-5, 0, 450}}
  \cup {Some(JStr(t)) : t \in ValueTexts}

\* the sector texts of the imports; "5" is read as a number by parseValue
ImportSectorTexts == {<<"v", "e'", "t", "o">>, <<"z", "z">>, <<"5">>}

\* a sheet with every required row, and the optional rows left out
completeRows ==
  [p \in ImportPaths |->
     IF p = "meta.companyName" THEN Some(<<"a">>)
     ELSE IF p = "meta.sector" THEN Some(<<"v", "e'", "t", "o">>)
     ELSE IF p = "meta.year" THEN Some(<<"2", "0", "2", "4">>)
     ELSE IF p = "finance.caAnnuel" THEN Some(<<"4", "5", "0">>)
     ELSE IF p = "finance.resultatNet" THEN Some(<<"2", "0">>)
     ELSE IF p = "finance.tresorerie" THEN Some(<<"-", "3", "0">>)
     ELSE IF p = "finance.dettesFinancieres" THEN Some(<<"1", "0">>)
     ELSE IF p = "finance.fondsPropres" THEN Some(<<"5", "0", " ", "EUR">>)
     ELSE undefined]

\* the same content as a JSON document
completeDocument ==
  [p \in ImportPaths |->
     IF p = "meta.companyName" THEN Some(JStr(<<"a">>))
     ELSE IF p = "meta.sector" THEN Some(JStr(<<"v", "e'", "t", "o">>))
     ELSE IF p = "meta.year" THEN Some(JNum(2024))
     ELSE IF p = "finance.caAnnuel" THEN Some(JNum(450))
     ELSE IF p = "finance.resultatNet" THEN Some(JNum(20))
     ELSE IF p = "finance.tresorerie" THEN Some(JNum(-30))
     ELSE IF p = "finance.dettesFinancieres" THEN Some(JNum(10))
     ELSE IF p = "finance.fondsPropres" THEN Some(JNum(50))
     ELSE undefined]

ExcelInputs ==
  {[completeRows EXCEPT !["finance.caAnnuel"] = ca, !["meta.sector"] = sector,
                        !["meta.year"] = year, !["operations.tauxOccupation"] = taux] :
     ca \in ExcelRevenues,
     sector \in {undefined} \cup {Some(t) : t \in ImportSectorTexts},
     year \in {undefined, Some(<<"2", "0", "2", "4">>)},
     taux \in {undefined, Some(<<"8", "5", "%">>), Some(<<"1", "2", "0">>)}}

JsonInputs ==
  {[syntaxError |-> TRUE, data |-> completeDocument]}
  \cup
  {[syntaxError |-> FALSE,
    data |-> [completeDocument EXCEPT !["finance.caAnnuel"] = ca,
                                      !["meta.sector"] = sector,
                                      !["meta.year"] = year,
                                      !["operations.tauxOccupation"] = taux]] :
     ca \in JsonRevenues,
     sector \in {undefined, Some(JNum(5))} \cup {Some(JStr(t)) : t \in ImportSectorTexts},
     year \in {undefined, Some(JNum(2024))},
     taux \in {undefined, Some(JNum(85)), Some(JNum(120))}}

otherVarsOfImport == <<formData, edits, phase, resultVars, sectorVars, uiVars,
                       benchVars, simVars, contextVars>>

\* ImportJsonPanel handleValidate: validateJsonImport(jsonInput)
ValidateJson ==
  \E input \in JsonInputs :
    /\ importInput = <<>>
    /\ importInput' = Some([kind |-> "json", revenue |-> input.data["finance.caAnnuel"],
                            syntaxError |-> input.syntaxError, json |-> input])
    /\ importResult' = Some(validateJsonImport(input))
    /\ UNCHANGED otherVarsOfImport

\* ImportExcelPanel handleValidate: validateExcelData(parseExcelChampValeur(excelInput))
ValidateExcel ==
  \E rows \in ExcelInputs :
    /\ importInput = <<>>
    /\ importInput' = Some([kind |-> "excel", revenue |-> rows["finance.caAnnuel"],
                            syntaxError |-> FALSE, rows |-> rows])
    /\ importResult' = Some(validateExcelData(parseExcelChampValeur(rows)))
    /\ UNCHANGED otherVarsOfImport

NextImport == ValidateJson \/ ValidateExcel

SpecImport == Init /\ [][NextImport]_vars
-----------------------------------------------------------------------------
(* simulationEngine.ts getPrioritizedScenarios and the SimulationModule
   component *)

\* the latest value of Date.now(), in ticks
MaxNow == 1

\* priorities.sort((a, b) => b.score - a.score): a stable sort, higher scores
\* first
RECURSIVE sortByScore(_)
sortByScore(priorities) ==
  IF priorities = <<>> THEN <<>>
  ELSE LET sorted == sortByScore(SubSeq(priorities, 1, Len(priorities) - 1))
           last == priorities[Len(priorities)]
           before == SelectSeq(sorted, LAMBDA p : p[2] >= last[2])
           after == SelectSeq(sorted, LAMBDA p : p[2] < last[2])
       IN  before \o <<last>> \o after

\* an entry { type, score } of priorities, as a pair
Priority(type, score) == <<type, score>>

\* the entries pushed to priorities, in the order of the pushes, RH scored rhScore
prioritiesOf(data, s, rhScore) ==
  LET turnover == safeNumber(ValueAt(data, <<"hr", "turnoverRatePercent">>), 0)
      absenteisme == safeNumber(ValueAt(data, <<"hr", "absenteeismRatePercent">>), 0)
  IN  (IF s.global < 600 THEN <<Priority("TRESORERIE", 100)>> ELSE <<>>)
      \o (IF s.financier > 750 THEN <<Priority("RENTABILITE", 90)>>
          ELSE IF s.financier < 500 THEN <<Priority("RENTABILITE", 85)>>
          ELSE <<>>)
      \o (IF s.operationnel < 600 THEN <<Priority("ACTIVITE", 80)>> ELSE <<>>)
      \o (IF s.commercial < 600 THEN <<Priority("COMMERCIAL", 75)>> ELSE <<>>)
      \o (IF turnover > 15 \/ absenteisme > 5 THEN <<Priority("RH", rhScore)>> ELSE <<>>)

defaultOrder == <<"TRESORERIE", "RENTABILITE", "ACTIVITE", "COMMERCIAL", "RH">>

typesOf(priorities) == [i \in 1..Len(priorities) |-> priorities[i][1]]

\* getPrioritizedScenarios with the RH alert scored above RENTABILITE
getPrioritizedScenarios_RhSecond(data, s) ==
  IF prioritiesOf(data, s, 95) = <<>> THEN defaultOrder
  ELSE typesOf(sortByScore(prioritiesOf(data, s, 95)))

getPrioritizedScenarios(data, s) ==
  IF prioritiesOf(data, s, 70) = <<>> THEN defaultOrder
  ELSE typesOf(sortByScore(prioritiesOf(data, s, 70)))

\* results.sort((a, b) => b.impactMax - a.impactMax) of the topResults memo,
\* which sorts the state array in place; a NaN difference counts as 0
impactOrZero(r) == IF r.impactMax = undefined THEN 0 ELSE Get(r.impactMax)

sameRank(a, b) ==
  a.impactMax = undefined \/ b.impactMax = undefined \/ Get(a.impactMax) = Get(b.impactMax)

RECURSIVE sortByImpactMax(_)
sortByImpactMax(list) ==
  IF list = <<>> THEN <<>>
  ELSE LET sorted == sortByImpactMax(SubSeq(list, 1, Len(list) - 1))
           last == list[Len(list)]
           before == SelectSeq(sorted, LAMBDA r : sameRank(r, last)
                                                   \/ impactOrZero(r) > impactOrZero(last))
           after == SelectSeq(sorted, LAMBDA r : ~sameRank(r, last)
                                                  /\ impactOrZero(r) < impactOrZero(last))
       IN  before \o <<last>> \o after

\* the result with its id, the scenario and Date.now()
withId(result, type, time) == [id |-> <<type, time>>] @@ result

\* the data of the module: normalizeToV2(auditData) as the engine reads it
normalizedData == Properties(normalizeToV2(Get(moduleProps).auditData))

otherVarsOfModule == <<formData, edits, phase, resultVars, sectorVars, benchVars,
                       simVars, contextVars, importVars, requests, historyVars>>

\* the props { auditData, scores } of SimulationModule
SimulationModuleProps(auditData, s) ==
  [auditData |-> auditData,
   scores |-> ScoresOf(s.global, s.financier, s.operationnel, s.commercial, s.strategique)]

\* the first render of SimulationModule with its props
MountModule(auditData, s) ==
  /\ moduleProps = <<>>
  /\ moduleProps' = Some(SimulationModuleProps(auditData, s))
  /\ prioritized' = getPrioritizedScenarios(Properties(normalizeToV2(auditData)), s)
  /\ UNCHANGED <<results, now, otherVarsOfModule>>

\* setResults(prev => [...prev.filter(r => r.type !== type), result]) without
\* the filter
onSimulate_Appends(type, inputs) ==
  LET result == runSimulation(type, normalizedData, inputs)
  IN  /\ moduleProps # <<>>
      /\ results' = IF result = undefined THEN results
                    ELSE sortByImpactMax(Append(results, withId(Get(result), type, now)))
      /\ UNCHANGED <<moduleProps, prioritized, now, otherVarsOfModule>>

\* handleSimulate(type, inputs), then the render that sorts results
onSimulate(type, inputs) ==
  LET result == runSimulation(type, normalizedData, inputs)
      filtered == SelectSeq(results, LAMBDA r : r.type # type)
  IN  /\ moduleProps # <<>>
      /\ results' = IF result = undefined THEN results
                    ELSE sortByImpactMax(Append(filtered, withId(Get(result), type, now)))
      /\ UNCHANGED <<moduleProps, prioritized, now, otherVarsOfModule>>

\* handleRemove(id)
handleRemove(id) ==
  /\ moduleProps # <<>>
  /\ results' = SelectSeq(results, LAMBDA r : r.id # id)
  /\ UNCHANGED <<moduleProps, prioritized, now, otherVarsOfModule>>

\* time passes
Tick ==
  /\ now < MaxNow
  /\ now' = now + 1
  /\ UNCHANGED <<formData, edits, phase, resultVars, sectorVars, benchVars, simVars,
                 contextVars, importVars, moduleVars, requests, historyVars>>

\* the props of the module for the priorities: records with and without HR
\* data; the scores are taken on both sides of each limit, in tenths
PriorityRecords ==
  {completeRecord, importedRecord,
   [completeRecord EXCEPT !.hr = Some(HRData(Some(4), Some(16)))],
   [completeRecord EXCEPT !.hr = Some(HRData(Some(6), undefined))],
   [completeRecord EXCEPT !.hr = Some(HRData(Some(5), Some(15)))]}

MountWithPriorities ==
  \E auditData \in PriorityRecords :
    \E g \in {599, 600}, f \in {499, 500, 750, 751}, o \in {599, 600}, c \in {599, 600} :
        MountModule(auditData, ScoresOf(g, f, o, c, 800))

NextPriorities == MountWithPriorities

SpecPriorities == Init /\ [][NextPriorities]_vars

\* the props of the module for the simulations
ModuleRecords == {completeRecord}

\* the scenario whose deltas the selector may still hold when type is shown
previousTab(type) ==
  CHOOSE other \in SimulationTypes :
    \E i \in 1..Len(defaultOrder) :
      defaultOrder[i] = type /\ defaultOrder[(i % Len(defaultOrder)) + 1] = other

\* the deltas the selector holds: those of the scenario, all raised, or those
\* left from another scenario
SelectorInputs(type) ==
  {[n \in DeltaNames[type] |-> Some(5)], [n \in DeltaNames[previousTab(type)] |-> Some(5)]}

MountWithResults ==
  \E auditData \in ModuleRecords :
    MountModule(auditData, ScoresOf(600, 1000, 900, 900, 650))

ClickSimulate ==
  \E type \in SimulationTypes : \E inputs \in SelectorInputs(type) : onSimulate(type, inputs)

\* the remove button of a result card
ClickRemove == \E i \in 1..Len(results) : handleRemove(results[i].id)

NextModule == MountWithResults \/ ClickSimulate \/ ClickRemove \/ Tick

SpecModule == Init /\ [][NextModule]_vars
-----------------------------------------------------------------------------
(* AuditContext.tsx: the report requests *)

\* the report requests that may be awaited at one time
MaxRequests == 2

otherVarsOfPdf == <<formData, edits, phase, resultVars, sectorVars, benchVars, simVars,
                    calls, importVars, moduleVars, historyVars, now>>

\* setIsPdfGenerating(value)
setIsPdfGenerating(value) ==
  /\ auditState' = [auditState EXCEPT !.isPdfGenerating = value]
  /\ UNCHANGED <<requests, otherVarsOfPdf>>

\* the part of downloadPdf and of sendPdfEmail before the first await: nothing
\* is started without a record and scores, otherwise the flag is set and the
\* edge function is invoked
startRequest(kind) ==
  /\ auditState.auditData # undefined
  /\ auditState.scores # undefined
  /\ Len(requests) < MaxRequests
  /\ auditState' = [auditState EXCEPT !.isPdfGenerating = TRUE]
  /\ requests' = Append(requests, kind)
  /\ UNCHANGED otherVarsOfPdf

downloadPdf == startRequest("generate-pdf-report")

sendPdfEmail == startRequest("send-pdf-email")

\* the button of PDFDownloadButton, disabled while isPdfGenerating
ClickDownload == ~auditState.isPdfGenerating /\ downloadPdf

\* Ctrl+P or Cmd+P
PressCtrlP == ~auditState.isPdfGenerating /\ downloadPdf

\* a caller of useSendPdfEmail, which hands it the flag with the function
SendEmail == ~auditState.isPdfGenerating /\ sendPdfEmail

\* an awaited request settles, with a report or an error: the finally block
CompleteRequest ==
  \E i \in 1..Len(requests) :
    /\ requests' = SubSeq(requests, 1, i - 1) \o SubSeq(requests, i + 1, Len(requests))
    /\ auditState' = [auditState EXCEPT !.isPdfGenerating = FALSE]
    /\ UNCHANGED otherVarsOfPdf

SetPdfFlag == \E value \in BOOLEAN : setIsPdfGenerating(value)

NextPdf ==
  \/ SubmitForm
  \/ ImportData
  \/ resetAudit
  \/ ClickDownload
  \/ PressCtrlP
  \/ SendEmail
  \/ CompleteRequest
  \/ SetPdfFlag

SpecPdf == Init /\ [][NextPdf]_vars
-----------------------------------------------------------------------------
(* decisionEngine.ts import history; the handlers of the import panels *)

MAX_IMPORTS_PER_24H == 3

\* 24 hours, in ticks of Date.now()
DUPLICATE_WINDOW_MS == 1

\* the entries the storage holds at most in the model
MaxHistory == 4

Blanks == {" ", "\t", "\n"}

\* content.replace(/\s+/g, ' ')
RECURSIVE collapseBlanks(_)
collapseBlanks(s) ==
  IF s = <<>> THEN <<>>
  ELSE IF Head(s) \notin Blanks THEN <<Head(s)>> \o collapseBlanks(Tail(s))
  ELSE IF Len(s) > 1 /\ s[2] \in Blanks THEN collapseBlanks(Tail(s))
  ELSE <<" ">> \o collapseBlanks(Tail(s))

RECURSIVE trimBlanks(_)
trimBlanks(s) ==
  IF s = <<>> THEN <<>>
  ELSE IF Head(s) \in Blanks THEN trimBlanks(Tail(s))
  ELSE IF s[Len(s)] \in Blanks THEN trimBlanks(SubSeq(s, 1, Len(s) - 1))
  ELSE s

\* sha256Hash(content): the digest of the normalized text, written as that
\* text (two digests are equal exactly when the normalized texts are)
sha256Hash(content) == collapseBlanks(trimBlanks(content))

\* cleanOldImports on the stored history at Date.now() = time
cleanOldImports(history, time) ==
  SelectSeq(history, LAMBDA entry : time - entry.timestamp < DUPLICATE_WINDOW_MS)

\* checkImportLimits(hash) after its cleanOldImports(): history is the cleaned
\* list
checkImportLimits(hash, history) ==
  IF \E i \in 1..Len(history) : history[i].hash = hash
    THEN [allowed |-> FALSE, reason |-> "duplicate"]
  ELSE IF Len(history) >= MAX_IMPORTS_PER_24H
    THEN [allowed |-> FALSE, reason |-> "limit"]
  ELSE [allowed |-> TRUE, reason |-> "none"]

ImportHistoryEntry(hash, timestamp) == [hash |-> hash, timestamp |-> timestamp]

\* recordImport(hash): the history it saves
recordImport(hash, history, time) ==
  Append(cleanOldImports(history, time), ImportHistoryEntry(hash, time))

\* what is pasted into the JSON panel: a text and the document it reads as.
\* One letter stands for the whole body of a document.
JsonPastes ==
  {[text |-> <<"A">>, input |-> [syntaxError |-> FALSE, data |-> completeDocument]],
   [text |-> <<" ", "A", "\n">>,
    input |-> [syntaxError |-> FALSE, data |-> completeDocument]],
   [text |-> <<"B">>,
    input |-> [syntaxError |-> FALSE,
               data |-> [completeDocument EXCEPT !["finance.caAnnuel"] = Some(JNum(900))]]],
   [text |-> <<"X">>, input |-> [syntaxError |-> TRUE, data |-> completeDocument]],
   [text |-> <<" ", "\n">>, input |-> [syntaxError |-> TRUE, data |-> completeDocument]]}

\* what is pasted into the Excel panel: a text and its rows
ExcelPastes ==
  {[text |-> <<"E">>, rows |-> completeRows],
   [text |-> <<"F">>, rows |-> [completeRows EXCEPT !["finance.caAnnuel"] = undefined]]}

otherVarsOfHistory == <<formData, edits, phase, resultVars, sectorVars, benchVars, simVars,
                        calls, importVars, moduleVars, requests>>

\* the panel after handleValidate, when the text is not blank
validatedPanel(panel, contentHash, limitCheck, result) ==
  IF ~limitCheck.allowed
    THEN [hash |-> Some(contentHash), validationResult |-> undefined,
          importError |-> Some(limitCheck.reason)]
  ELSE IF result.threw
    THEN [hash |-> Some(contentHash), validationResult |-> panel.validationResult,
          importError |-> Some("validation")]
  ELSE [hash |-> Some(contentHash), validationResult |-> Some(result),
        importError |-> undefined]

\* what the validator of the panel of tab returns for the pasted text
validationOf(tab, input) ==
  IF tab = "json" THEN validateJsonImport(input)
  ELSE validateExcelData(parseExcelChampValeur(input))

\* handleValidate of the panel of tab; input is what the pasted text reads as
handleValidate(tab, text, input) ==
  LET cleaned == cleanOldImports(importHistory, now)
      contentHash == sha256Hash(text)
  IN  /\ panels.activeTab = tab
      /\ IF trimBlanks(text) = <<>>
           THEN /\ panels' = [panels EXCEPT ![tab].validationResult = undefined,
                                            ![tab].importError = Some("empty")]
                /\ importHistory' = importHistory
           ELSE /\ panels' = [panels EXCEPT ![tab] =
                                validatedPanel(panels[tab], contentHash,
                                               checkImportLimits(contentHash, cleaned),
                                               validationOf(tab, input))]
                /\ importHistory' = cleaned
      /\ UNCHANGED <<auditState, now, otherVarsOfHistory>>

\* handleImport of the panel of tab, then handleImport of DataImportModule
handleImport(tab, origin) ==
  LET panel == panels[tab]
      data == Get(Get(panel.validationResult).parsedData)
      meta == [dataOrigin |-> origin, importHash |-> Get(panel.hash), importTimestamp |-> now]
  IN  /\ panels.activeTab = tab
      /\ panel.validationResult # undefined
      /\ Get(panel.validationResult).isValid
      /\ Get(panel.validationResult).parsedData # undefined
      /\ panel.hash # undefined
      /\ Len(importHistory) < MaxHistory
      /\ importHistory' = recordImport(Get(panel.hash), importHistory, now)
      /\ auditState' = IF computeScores4DThrows(data)
                         THEN calculatingState(auditState)
                         ELSE computedState(data, Some(meta))
      /\ UNCHANGED <<panels, now, otherVarsOfHistory>>

ValidateJsonPaste ==
  \E paste \in JsonPastes :
    handleValidate("json", paste.text, paste.input)

ValidateExcelPaste ==
  \E paste \in ExcelPastes :
    handleValidate("excel", paste.text, paste.rows)

ClickImportJson == handleImport("json", "declaratif_client")

ClickImportExcel == handleImport("excel", "excel_champ_valeur")

\* the other tab is chosen: only the panel of the active tab is mounted, the
\* state of the one left is lost
SwitchTab ==
  /\ panels' = [initialPanels EXCEPT
                  !.activeTab = IF panels.activeTab = "json" THEN "excel" ELSE "json"]
  /\ UNCHANGED <<auditState, importHistory, now, otherVarsOfHistory>>

NextHistory ==
  \/ ValidateJsonPaste
  \/ ValidateExcelPaste
  \/ ClickImportJson
  \/ ClickImportExcel
  \/ SwitchTab
  \/ Tick

SpecHistory == Init /\ [][NextHistory]_vars
-----------------------------------------------------------------------------
(* Properties of the scoring engine (specification Spec) *)

\* computeScoresV2 returned for the record of the form
Scored == phase = "done" /\ scores # <<>>

formBenchmarks == getBenchmarks(formData.sector, formData.variant)

\* the optional fields that feed a contribution, and the two that feed none
ScoredOptionalFields ==
  {"netMarginPercent", "cashRunwayMonths", "returnRatePercent", "incidentsPerMonth",
   "loyaltyPercent", "csatPercent", "nps", "turnoverRatePercent",
   "absenteeismRatePercent"}

UnscoredOptionalFields == {"cogsPercent", "fixedCostsPercent"}

\* the value of an optional field of a record, undefined when it or the
\* object holding it is absent
FieldValue(v2, f) ==
  CASE f = "netMarginPercent" -> v2.finance.netMarginPercent
    [] f = "cashRunwayMonths" -> v2.finance.cashRunwayMonths
    [] f = "cogsPercent" -> v2.costs.cogsPercent
    [] f = "fixedCostsPercent" -> v2.costs.fixedCostsPercent
    [] f = "returnRatePercent" -> qualityReturnRate(v2)
    [] f = "incidentsPerMonth" -> qualityIncidents(v2)
    [] f = "loyaltyPercent" -> v2.commercial.loyaltyPercent
    [] f = "csatPercent" -> satisfactionCsat(v2)
    [] f = "nps" -> satisfactionNps(v2)
    [] f = "turnoverRatePercent" -> hrTurnover(v2)
    [] f = "absenteeismRatePercent" -> hrAbsenteeism(v2)

\* the same record with one present optional field made undefined; the object
\* that holds the field stays
WithoutField(v2, f) ==
  CASE f = "netMarginPercent" -> [v2 EXCEPT !.finance.netMarginPercent = undefined]
    [] f = "cashRunwayMonths" -> [v2 EXCEPT !.finance.cashRunwayMonths = undefined]
    [] f = "cogsPercent" -> [v2 EXCEPT !.costs.cogsPercent = undefined]
    [] f = "fixedCostsPercent" -> [v2 EXCEPT !.costs.fixedCostsPercent = undefined]
    [] f = "returnRatePercent" ->
         [v2 EXCEPT !.ops.quality = Some([Get(v2.ops.quality) EXCEPT
                                            !.returnRatePercent = undefined])]
    [] f = "incidentsPerMonth" ->
         [v2 EXCEPT !.ops.quality = Some([Get(v2.ops.quality) EXCEPT
                                            !.incidentsPerMonth = undefined])]
    [] f = "loyaltyPercent" -> [v2 EXCEPT !.commercial.loyaltyPercent = undefined]
    [] f = "csatPercent" ->
         [v2 EXCEPT !.commercial.satisfaction =
                      Some([Get(v2.commercial.satisfaction) EXCEPT !.csatPercent = undefined])]
    [] f = "nps" ->
         [v2 EXCEPT !.commercial.satisfaction =
                      Some([Get(v2.commercial.satisfaction) EXCEPT !.nps = undefined])]
    [] f = "turnoverRatePercent" ->
         [v2 EXCEPT !.hr = Some([Get(v2.hr) EXCEPT !.turnoverRatePercent = undefined])]
    [] f = "absenteeismRatePercent" ->
         [v2 EXCEPT !.hr = Some([Get(v2.hr) EXCEPT !.absenteeismRatePercent = undefined])]

\* the mean of the sub-scores that exist: nothing when none does
MeanOfPresent(subScores) ==
  IF Len(subScores) = 0 THEN <<>>
  ELSE IF Len(subScores) = 1 THEN <<RInt(subScores[1])>>
  ELSE <<Frac(subScores[1] + subScores[2], 2)>>

PresentSubScore(o, Score(_)) == IF o # undefined THEN <<Score(Get(o))>> ELSE <<>>

\* the contributions whose underlying data is present: the mandatory ones and
\* one per optional input that holds a value, none for an absent input
PresentOpsContributions(v2, b) ==
  <<Contribution(occScoreOf(v2.ops.occupancyRatePercent), 60),
    Contribution(caEtpScoreOf(caEtpOf(v2.finance.annualRevenue,
                                      v2.ops.productivity.fte), b), 25)>>
  \o (LET q == MeanOfPresent(PresentSubScore(qualityReturnRate(v2), returnScoreOf)
                             \o PresentSubScore(qualityIncidents(v2), incidentScoreOf))
      IN  IF q # <<>> THEN <<Contribution(q[1], 15)>> ELSE <<>>)

PresentStrategiqueContributions(v2, b) ==
  <<Contribution(RInt(servicesScoreOf(v2.nbServices)), 40)>>
  \o (IF v2.finance.cashRunwayMonths # undefined
      THEN <<Contribution(RInt(runwayRiskOf(Get(v2.finance.cashRunwayMonths))), 20)>>
      ELSE <<>>)
  \o (LET h == MeanOfPresent(PresentSubScore(hrTurnover(v2), turnoverScoreOf)
                             \o PresentSubScore(hrAbsenteeism(v2), absScoreOf))
      IN  IF h # <<>> THEN <<Contribution(h[1], 20)>> ELSE <<>>)
  \o <<Contribution(RInt(balanceScoreOf(v2, b)), 20)>>

WeightedAverage(cs) == RDiv(SumWeighted(cs), SumWeights(cs))

\* C1: for every accepted record each dimension score is, before rounding,
\* sum(score_i * weight_i) / sum(weight_i) over exactly the contributions
\* whose data is present; an absent optional input adds nothing to either sum
\* and is never replaced by a default score.
C1_PresentContributionsOnly ==
  Scored =>
    /\ scoreFinancierOf(formData, formBenchmarks)
         = WeightedAverage(financierContributions(formData, formBenchmarks))
    /\ scoreCommercialOf(formData, formBenchmarks)
         = WeightedAverage(commercialContributions(formData, formBenchmarks))
    /\ scoreOperationnelOf(formData, formBenchmarks)
         = WeightedAverage(PresentOpsContributions(formData, formBenchmarks))
    /\ scoreStrategiqueOf(formData, formBenchmarks)
         = WeightedAverage(PresentStrategiqueContributions(formData, formBenchmarks))

\* the dimension an optional field contributes to, with its declared weight
DeclaredWeight(f) ==
  CASE f \in {"netMarginPercent", "cashRunwayMonths"} -> 5
    [] f \in {"returnRatePercent", "incidentsPerMonth"} -> 15
    [] f = "loyaltyPercent" -> 35
    [] f \in {"csatPercent", "nps"} -> 10
    [] f \in {"turnoverRatePercent", "absenteeismRatePercent"} -> 20

DimensionContributions(v2, b, f) ==
  CASE f \in {"netMarginPercent", "cashRunwayMonths"} -> financierContributions(v2, b)
    [] f \in {"returnRatePercent", "incidentsPerMonth"} -> opsContributions(v2, b)
    [] f \in {"loyaltyPercent", "csatPercent", "nps"} -> commercialContributions(v2, b)
    [] f \in {"turnoverRatePercent", "absenteeismRatePercent"} ->
         strategiqueContributions(v2, b)

\* the number of mandatory contributions at the head of a dimension's list
MandatoryCount(f) ==
  CASE f \in {"netMarginPercent", "cashRunwayMonths"} -> 3
    [] f \in {"returnRatePercent", "incidentsPerMonth"} -> 2
    [] f \in {"loyaltyPercent", "csatPercent", "nps"} -> 1
    [] f \in {"turnoverRatePercent", "absenteeismRatePercent"} -> 1

\* the other field of the object that holds f, when there is one
Sibling(f) ==
  CASE f = "returnRatePercent" -> <<"incidentsPerMonth">>
    [] f = "incidentsPerMonth" -> <<"returnRatePercent">>
    [] f = "turnoverRatePercent" -> <<"absenteeismRatePercent">>
    [] f = "absenteeismRatePercent" -> <<"turnoverRatePercent">>
    [] OTHER -> <<>>

\* f is the only value of its contribution: it has no sibling, or the sibling
\* holds no value
OnlyValueOfContribution(v2, f) ==
  Sibling(f) = <<>> \/ FieldValue(v2, Sibling(f)[1]) = undefined

\* C2: two records that differ only in the presence of one optional scored
\* field use the same mandatory contributions, and the weight sum of the
\* affected dimension is smaller by exactly the field's declared weight where
\* the field is absent, also when the object that held it stays, empty.
C2_DenominatorShrinksByWeight ==
  Scored =>
    \A f \in ScoredOptionalFields :
      (FieldValue(formData, f) # undefined /\ OnlyValueOfContribution(formData, f)) =>
        LET with == DimensionContributions(formData, formBenchmarks, f)
            without == DimensionContributions(WithoutField(formData, f), formBenchmarks, f)
        IN  /\ SumWeights(with) - SumWeights(without) = DeclaredWeight(f)
            /\ SubSeq(with, 1, MandatoryCount(f)) = SubSeq(without, 1, MandatoryCount(f))

\* the scores of one step-scored metric never rise from excellent to good to
\* critical to one unit past critical on the bad side
NonIncreasing4(a, b, c, d) == RLe(b, a) /\ RLe(c, b) /\ RLe(d, c)

\* C3: for every step-scored metric and every sector/variant, score at the
\* excellent threshold >= score at good >= score at critical >= score just
\* past critical on the bad side.
C3_BoundaryMonotonicity ==
  Scored =>
    LET b == formBenchmarks
    IN  /\ NonIncreasing4(mbScoreOf(b.marge_brute.thresholds.excellent, b),
                          mbScoreOf(b.marge_brute.thresholds.bon, b),
                          mbScoreOf(b.marge_brute.thresholds.crit, b),
                          mbScoreOf(b.marge_brute.thresholds.crit - 1, b))
        /\ NonIncreasing4(caEtpScoreOf(RInt(b.ca_etp.thresholds.excellent), b),
                          caEtpScoreOf(RInt(b.ca_etp.thresholds.bon), b),
                          caEtpScoreOf(RInt(b.ca_etp.thresholds.crit), b),
                          caEtpScoreOf(RInt(b.ca_etp.thresholds.crit - 1), b))
        /\ NonIncreasing4(rhScoreOf(b.charges_rh.thresholds.excellent, b),
                          rhScoreOf(b.charges_rh.thresholds.bon, b),
                          rhScoreOf(b.charges_rh.thresholds.crit, b),
                          rhScoreOf(b.charges_rh.thresholds.crit + 1, b))
        /\ NonIncreasing4(dpScoreOf(b.digital_pct.thresholds.excellent, b),
                          dpScoreOf(b.digital_pct.thresholds.bon, b),
                          dpScoreOf(b.digital_pct.thresholds.crit, b),
                          dpScoreOf(b.digital_pct.thresholds.crit - 1, b))
        /\ NonIncreasing4(fidScoreOf(b.fidelisation.thresholds.excellent, b),
                          fidScoreOf(b.fidelisation.thresholds.bon, b),
                          fidScoreOf(b.fidelisation.thresholds.crit, b),
                          fidScoreOf(b.fidelisation.thresholds.crit - 1, b))


\* the penalty as the claim states it, from the number of undefined values
\* among the nine tracked optional fields
TrackedFields ==
  {"netMarginPercent", "cashRunwayMonths", "cogsPercent", "fixedCostsPercent",
   "absenteeismRatePercent", "turnoverRatePercent", "returnRatePercent",
   "csatPercent", "nps"}

UndefinedTracked(v2) == Cardinality({f \in TrackedFields : FieldValue(v2, f) = undefined})

ClaimedPenalty(v2) ==
  IF UndefinedTracked(v2) > 5 THEN 2
  ELSE IF UndefinedTracked(v2) > 3 THEN 1
  ELSE 0

\* financier*0.35 + operationnel*0.25 + commercial*0.20 + strategique*0.20
\* minus the penalty, on the unrounded dimension scores, times 100
ClaimedGlobalTimes100(v2, b) ==
  RSub(RAdd(RAdd(RScale(scoreFinancierOf(v2, b), 35), RScale(scoreOperationnelOf(v2, b), 25)),
            RAdd(RScale(scoreCommercialOf(v2, b), 20), RScale(scoreStrategiqueOf(v2, b), 20))),
       RInt(100 * ClaimedPenalty(v2)))

\* limited to [0, 100], then rounded to one decimal, in tenths
LimitThenRound(xTimes100) ==
  IF RLe(xTimes100, RInt(0)) THEN 0
  ELSE IF RLe(RInt(10000), xTimes100) THEN 1000
  ELSE RoundTenths(RDiv(xTimes100, 100))

\* C4: the global score is financier*0.35 + operationnel*0.25 +
\* commercial*0.20 + strategique*0.20 minus the missing-data penalty (2 for
\* more than 5 undefined tracked fields, 1 for 4 or 5, else 0), limited to
\* [0, 100] and rounded to one decimal; hence 0 <= global <= 100.
C4_GlobalScoreFormula ==
  Scored =>
    /\ Get(scores).global = LimitThenRound(ClaimedGlobalTimes100(formData, formBenchmarks))
    /\ Get(scores).global >= 0
    /\ Get(scores).global <= 1000

\* a scored record for which the penalty is 1
C4_Witness == Scored /\ UndefinedTracked(formData) \in {4, 5}

\* C5 as stated: turning any present optional field into an absent one never
\* raises the global score.
C5_RemovalNeverRaisesGlobal ==
  Scored =>
    \A f \in ScoredOptionalFields \cup UnscoredOptionalFields :
      FieldValue(formData, f) # undefined =>
        computeScoresV2(WithoutField(formData, f)).global <= Get(scores).global

\* C5 amended: the missing-data penalty never decreases when a present tracked
\* field becomes absent, and removing a tracked field that feeds no dimension
\* (cogsPercent, fixedCostsPercent) never raises the global score.
C5_PenaltyMonotone ==
  Scored =>
    /\ \A f \in TrackedFields :
         FieldValue(formData, f) # undefined =>
           missingDataPenaltyOf(missingCountOf(WithoutField(formData, f)))
             >= missingDataPenaltyOf(missingCountOf(formData))
    /\ \A f \in UnscoredOptionalFields :
         FieldValue(formData, f) # undefined =>
           computeScoresV2(WithoutField(formData, f)).global <= Get(scores).global

\* a scored record where removing cogsPercent raises the penalty and lowers
\* the global score
C5_Witness ==
  /\ Scored
  /\ formData.costs.cogsPercent # undefined
  /\ computeScoresV2(WithoutField(formData, "cogsPercent")).global < Get(scores).global

\* every percentage in [0, 100], NPS in [-100, 100], annualRevenue > 0,
\* fte > 0, nbServices >= 1
InRange(o, lo, hi) == o = undefined \/ (Get(o) >= lo /\ Get(o) <= hi)

ValidRecord(v2) ==
  /\ v2.finance.annualRevenue > 0
  /\ v2.ops.productivity.fte > 0
  /\ InRange(v2.nbServices, 1, 1000)
  /\ \A p \in {v2.finance.grossMarginPercent, v2.costs.hrCostsPercent,
               v2.ops.occupancyRatePercent, v2.commercial.digitalizationPercent} :
       p >= 0 /\ p <= 100
  /\ \A f \in {"cogsPercent", "fixedCostsPercent", "returnRatePercent", "loyaltyPercent",
               "csatPercent", "turnoverRatePercent", "absenteeismRatePercent"} :
       InRange(FieldValue(v2, f), 0, 100)
  /\ InRange(v2.finance.netMarginPercent, -100, 100)
  /\ InRange(satisfactionNps(v2), -100, 100)

\* C6: for every valid record and every sector/variant each of the four
\* dimension scores returned by computeScoresV2 lies in [0, 100].
C6_DimensionScoresInRange ==
  (Scored /\ ValidRecord(formData)) =>
    \A dim \in {"financier", "operationnel", "commercial", "strategique"} :
      Get(scores)[dim] >= 0 /\ Get(scores)[dim] <= 1000

-----------------------------------------------------------------------------
(* Properties of the decision engine (specification SpecDecision) *)

\* computeDecisionOutput returned for the record of the form
Decided == phase = "done" /\ decision # <<>>

\* the rules of RISK_RULES whose condition holds for the record and the scores
TriggeredSet == {r \in Range(RISK_RULES) : RuleCondition(r.id, formData, Get(scoresArg))}

TriggeredOfSeverity(sev) == {r \in TriggeredSet : r.severity = sev}

\* the priority by the first matching rule of the claim
ClaimedPriority ==
  IF Get(scoresArg).global < 400 THEN "CRITIQUE"
  ELSE IF TriggeredOfSeverity("critical") # {} THEN "CRITIQUE"
  ELSE IF Get(scoresArg).global < 500 \/ Cardinality(TriggeredOfSeverity("high")) >= 2
    THEN "E'LEVE'"
  ELSE IF Get(scoresArg).global < 600 \/ Cardinality(TriggeredOfSeverity("high")) >= 1
    THEN "MODE'RE'"
  ELSE "FAIBLE"

\* C7: the priority level is decided by the first matching rule: global < 40
\* CRITIQUE; else a triggered critical rule CRITIQUE; else global < 50 or two
\* triggered high rules E'LEVE'; else global < 60 or one triggered high rule
\* MODE'RE'; else FAIBLE.
C7_PriorityFirstMatch == Decided => Get(decision).priorityLevel = ClaimedPriority

\* a decision raised to E'LEVE' by two high rules alone, the global score
\* being 60 or more
C7_Witness ==
  /\ Decided
  /\ Get(scoresArg).global >= 600
  /\ TriggeredOfSeverity("critical") = {}
  /\ Cardinality(TriggeredOfSeverity("high")) >= 2
  /\ Get(decision).priorityLevel = "E'LEVE'"

RunwayBelow3 ==
  formData.finance.cashRunwayMonths # undefined /\ Get(formData.finance.cashRunwayMonths) < 3

\* C8: for every record whose cashRunwayMonths is present and below 3,
\* getAuditWarnings returns exactly one warning on cashRunwayMonths, that
\* warning is critical, and the priority is CRITIQUE whatever the scores.
C8_RunwayCritical ==
  (Decided /\ RunwayBelow3) =>
    /\ Cardinality({i \in 1..Len(warnings) : warnings[i].field = "cashRunwayMonths"}) = 1
    /\ \A i \in 1..Len(warnings) :
         warnings[i].field = "cashRunwayMonths" => warnings[i].type = "critical"
    /\ Get(decision).priorityLevel = "CRITIQUE"

\* a runway of 2 months decided with a global score of 100
C8_Witness ==
  /\ Decided
  /\ RunwayBelow3
  /\ Get(scoresArg).global = 1000
  /\ Get(decision).priorityLevel = "CRITIQUE"

RECURSIVE SortedDescByMax(_)
SortedDescByMax(recs) ==
  \/ Len(recs) <= 1
  \/ /\ recs[1].estimatedImpactMax >= recs[2].estimatedImpactMax
     /\ SortedDescByMax(Tail(recs))

\* C9: the decision output carries a quantifiedRecommendations list, each
\* entry with estimatedImpactMin <= estimatedImpactMax, at most 5 entries,
\* sorted in descending order of estimatedImpactMax.
C9_QuantifiedRecommendations ==
  Decided =>
    /\ "quantifiedRecommendations" \in DOMAIN Get(decision)
    /\ LET recs == Get(decision).quantifiedRecommendations
       IN  /\ Len(recs) <= 5
           /\ \A i \in 1..Len(recs) :
                recs[i].estimatedImpactMin <= recs[i].estimatedImpactMax
           /\ SortedDescByMax(recs)

-----------------------------------------------------------------------------
(* Properties of the sector validation (specification SpecSector) *)

Validated == phase = "done" /\ sectorResult # <<>>

\* the text matches no canonical sector and no synonym: it is non-empty once
\* normalized, equals no identifier and no synonym key, and neither contains a
\* synonym key nor is contained in one
MatchesNothing(raw) ==
  \/ raw = undefined
  \/ LET n == normalizeForSectorMatch(Get(raw))
     IN  /\ \A i \in 1..Len(ALLOWED_SECTORS) : ALLOWED_SECTORS[i].text # n
         /\ \A i \in 1..Len(SECTOR_SYNONYMS) :
              /\ SECTOR_SYNONYMS[i].key # n
              /\ ~Includes(n, SECTOR_SYNONYMS[i].key)
              /\ ~(n # <<>> /\ Includes(SECTOR_SYNONYMS[i].key, n))

\* C10: validateAndMapSector always returns a member of ALLOWED_SECTORS, and
\* an input that matches no canonical sector and no synonym gives 'autre' with
\* isFallback = true and a non-empty warning.
C10_SectorFallbackTotal ==
  Validated =>
    /\ Get(sectorResult).canonicalSector \in AllowedSectorIds
    /\ MatchesNothing(rawValue) =>
         /\ Get(sectorResult).canonicalSector = "autre"
         /\ Get(sectorResult).isFallback
         /\ Get(sectorResult).warning # undefined

-----------------------------------------------------------------------------
(* Sector resolution: insensitivity to case, accents and outer whitespace *)

\* String.prototype.toUpperCase, one character
UpperOf(c) ==
  IF \E i \in 1..Len(LowerCase) : LowerCase[i] = c
  THEN UpperCase[CHOOSE i \in 1..Len(LowerCase) : LowerCase[i] = c]
  ELSE c

\* the letter with an accent put on it, where the alphabet has one
AccentOn(c) ==
  CASE c = "e" -> "e'"
    [] c = "E" -> "E'"
    [] c = "a" -> "a^"
    [] OTHER -> c

ReplaceAt(t, i, c) == [j \in 1..Len(t) |-> IF j = i THEN c ELSE t[j]]

\* texts that differ from t only by the case of letters, by accents or by
\* whitespace around the text
FoldVariants(t) ==
  {[j \in 1..Len(t) |-> UpperOf(t[j])], lowerAll(t), stripAccents(t),
   [j \in 1..Len(t) |-> AccentOn(t[j])],
   <<" ">> \o t, t \o <<" ">>, <<"\t", " ">> \o t \o <<" ">>}
  \cup {ReplaceAt(t, i, UpperOf(t[i])) : i \in 1..Len(t)}
  \cup {ReplaceAt(t, i, toLowerCase(t[i])) : i \in 1..Len(t)}
  \cup {ReplaceAt(t, i, AccentOn(t[i])) : i \in 1..Len(t)}
  \cup {ReplaceAt(t, i, stripAccent(t[i])) : i \in 1..Len(t)}

Veto == <<"v", "e'", "t", "o">>

VeterinaireText == <<"V", "e", "t", "e", "r", "i", "n", "a", "i", "r", "e">>

\* C11: two raw inputs that differ only in letter case, diacritics or
\* surrounding whitespace resolve to the same canonical sector with the same
\* isFallback; "ve'to" and "Veterinaire" both give 'veterinaire', no fallback.
C11_CaseAccentWhitespaceInsensitive ==
  (Validated /\ rawValue # undefined) =>
    /\ \A t \in FoldVariants(Get(rawValue)) :
         /\ validateAndMapSector(Some(t)).canonicalSector
              = Get(sectorResult).canonicalSector
         /\ validateAndMapSector(Some(t)).isFallback = Get(sectorResult).isFallback
    /\ Get(rawValue) \in {Veto, VeterinaireText} =>
         /\ Get(sectorResult).canonicalSector = "veterinaire"
         /\ ~Get(sectorResult).isFallback

\* the accented informal name has been resolved
C11_Witness ==
  /\ Validated
  /\ rawValue = Some(Veto)
  /\ Get(sectorResult).canonicalSector = "veterinaire"
  /\ ~Get(sectorResult).isFallback

-----------------------------------------------------------------------------
(* Benchmark lookup (specification SpecLookup) *)

LookedUp == lookup # <<>> /\ lookupResult # <<>>

\* the variant argument is left out (or is the empty text)
VariantOmitted == Get(lookup).variant \in {undefined, Some("")}

\* the variant argument names a variant of the sector
IsVariantOf(secteur, variant) ==
  /\ secteur \in SectorNames
  /\ variant # undefined
  /\ \E v \in Range(SectorOf(secteur).variants) : v.id = Get(variant)

\* C12: getBenchmarks raises when the sector is no key of the table or when
\* the requested variant is no variant of that sector; with the variant
\* omitted it returns the metrics of the sector's default variant, which
\* exists for every sector of the table.
C12_LookupErrors ==
  LookedUp =>
    LET secteur == Get(lookup).secteur
        variant == Get(lookup).variant
        result == Get(lookupResult)
    IN  /\ secteur \notin SectorNames => result.outcome # "returned"
        /\ (secteur \in SectorNames /\ ~VariantOmitted /\ ~IsVariantOf(secteur, variant))
             => result.outcome # "returned"
        /\ (secteur \in SectorNames /\ VariantOmitted) =>
             /\ result.outcome = "returned"
             /\ IsVariantOf(secteur, Some(SectorOf(secteur).default_variant))
             /\ result.metrics
                  = Some((CHOOSE v \in Range(SectorOf(secteur).variants) :
                            v.id = SectorOf(secteur).default_variant).metrics)

-----------------------------------------------------------------------------
(* The reference record (specification Spec) *)

\* the record of the scenario: sector "Veterinaire", variant "veto_standard",
\* the eight mandatory values and no optional field
ReferenceRecord ==
  AuditDataV2("Veterinaire", Some("veto_standard"),
              FinanceData(450, 68, undefined, undefined),
              CostsData(52, undefined, undefined),
              OpsData(85, 45, undefined),
              undefined,
              CommercialData(85, Some(88), undefined),
              Some(5))

\* scoring has been run on the reference record
ReferenceScored == phase = "done" /\ formData = ReferenceRecord

\* C13: scoring the reference record succeeds: the lookup gives the
\* marge_brute thresholds {0.55, 0.70, 0.75}, the gross-margin contribution
\* is 50 and the financier score is the weighted average of the three
\* mandatory contributions only.
C13_ReferenceRecord ==
  ReferenceScored =>
    /\ ~threw
    /\ scores # <<>>
    /\ getBenchmarksCall(formData.sector, formData.variant).outcome = "returned"
    /\ LET b == Get(getBenchmarksCall(formData.sector, formData.variant).metrics)
           three == <<Contribution(mbScoreOf(68, b), 40),
                      Contribution(caEtpScoreOf(caEtpOf(450, 45), b), 30),
                      Contribution(rhScoreOf(52, b), 20)>>
       IN  /\ b.marge_brute.thresholds = [crit |-> 55, bon |-> 70, excellent |-> 75]
           /\ mbScoreOf(68, b) = RInt(50)
           /\ Get(scores).financier = RoundTenths(calculateWeightedScore(three))

-----------------------------------------------------------------------------
(* Simulation engine (specification SpecSimulation) *)

Simulated == simulation # <<>> /\ simResult # <<>>

\* the value runSimulation returned: <<>> is null
Returned == Get(simResult).value

KnownScenario == Get(simulation).type \in SimulationTypes

\* every delta of the requested scenario is zero or missing
AllDeltasZeroOrMissing ==
  \A n \in DeltaNames[Get(simulation).type] :
    \/ n \notin DOMAIN Get(simulation).inputs
    \/ Get(simulation).inputs[n] \in {undefined, Some(0)}

RevenueZeroOrAbsent ==
  ValueAt(Get(simulation).data, <<"finance", "annualRevenue">>) \in {undefined, Some(0)}

\* C14: for each of the five scenario types runSimulation returns null when
\* every delta of the scenario is zero or missing and when annualRevenue is
\* zero or absent; in every other case it returns a result of the requested
\* type.
C14_NullGuards ==
  (Simulated /\ KnownScenario) =>
    IF AllDeltasZeroOrMissing \/ RevenueZeroOrAbsent
    THEN Returned = undefined
    ELSE Returned # undefined /\ Get(Returned).type = Get(simulation).type

\* a TRESORERIE simulation on a record with revenue, its three deltas all
\* given as zero, has returned null
C14_Witness ==
  /\ Simulated
  /\ Get(simulation).type = "TRESORERIE"
  /\ ~RevenueZeroOrAbsent
  /\ \A n \in DeltaNames.TRESORERIE : Get(simulation).inputs[n] = Some(0)
  /\ Returned = undefined

\* C15: every non-null result of runSimulation has impactMin <= impactMax,
\* for any scenario type, record and deltas, positive or negative.
C15_ImpactBounds ==
  (Simulated /\ Returned # undefined) =>
    /\ Get(Returned).impactMin # undefined
    /\ Get(Returned).impactMax # undefined
    /\ Get(Get(Returned).impactMin) <= Get(Get(Returned).impactMax)

\* nothing the record can hold is missing
EveryFieldPresent(data) == \A p \in DOMAIN data : data[p] # undefined

\* C16: the confidence level follows the completeness of the record: when
\* every required field is present a TRESORERIE, RENTABILITE, ACTIVITE or
\* COMMERCIAL simulation reports BON and an RH simulation reports MOYEN, never
\* BON.
C16_ConfidenceFollowsCompleteness ==
  (Simulated /\ Returned # undefined) =>
    /\ Get(simulation).type = "RH" => Get(Returned).confidenceLevel # "BON"
    /\ EveryFieldPresent(Get(simulation).data) =>
         Get(Returned).confidenceLevel
           = (IF Get(simulation).type = "RH" THEN "MOYEN" ELSE "BON")


-----------------------------------------------------------------------------
(* The audit context *)

\* the three results as the context computes them from a record
ComputedFrom(data) ==
  LET s == computeScores4D(data)
      w == getAuditWarnings(normalizeToV2(data))
  IN  [scores |-> Some(s), warnings |-> w,
       decision |-> Some(computeDecisionOutput(normalizeToV2(data), s, w))]

\* C17: after any sequence of submitAudit, importAuditFromData and resetAudit,
\* the stored scores, warnings and decision are the ones computed from the
\* stored auditData, and scores and decision are null exactly when auditData
\* is null
C17_ResultsMatchAuditData ==
  /\ (auditState.auditData = <<>>) <=> (auditState.scores = <<>>)
  /\ (auditState.auditData = <<>>) <=> (auditState.decision = <<>>)
  /\ auditState.auditData # <<>> =>
       LET c == ComputedFrom(Get(auditState.auditData))
       IN  /\ auditState.scores = c.scores
           /\ auditState.warnings = c.warnings
           /\ auditState.decision = c.decision

\* a submitted record is stored with a decision that raises a priority, and a
\* later operation has started and thrown
C17_Witness ==
  /\ calls = MaxCalls
  /\ auditState.auditData # <<>>
  /\ Get(auditState.auditData).secteur = "Commerce"
  /\ auditState.isCalculating
  /\ Get(auditState.decision).priorityLevel # "OK"

-----------------------------------------------------------------------------
(* The import layer *)

\* a validator has returned a result for the import
ImportReturned == importResult # <<>> /\ ~Get(importResult).threw

\* the import was accepted
ImportAccepted == Get(importResult).isValid /\ Get(importResult).parsedData # undefined

\* the revenue field of the import is missing, non-numeric, zero or negative:
\* no row, a blank cell or a cell parseValue reads no number from in a sheet;
\* no property, null, or a value Number() gives NaN or at most 0 for in JSON
RevenueRejectable ==
  LET input == Get(importInput)
      revenue == input.revenue
  IN  IF input.kind = "excel"
        THEN \/ revenue = undefined
             \/ parseValue(Get(revenue)) = undefined
             \/ Get(parseValue(Get(revenue))).t = "string"
             \/ Get(parseValue(Get(revenue))).n <= 0
        ELSE \/ revenue = undefined
             \/ Get(revenue).t = "null"
             \/ NumberOf(Get(revenue)) = undefined
             \/ Get(NumberOf(Get(revenue))) <= 0

\* C18: every import that validateJsonImport or validateExcelData accepts
\* (isValid = true, parsedData non-null) has finance.annualRevenue > 0, and an
\* import whose revenue field is missing, non-numeric, zero or negative is
\* rejected with isValid = false and parsedData = null.
C18_AcceptedRevenuePositive ==
  ImportReturned =>
    /\ ImportAccepted =>
         Get(Get(importResult).parsedData).finance.annualRevenue > 0
    /\ RevenueRejectable =>
         ~Get(importResult).isValid /\ Get(importResult).parsedData = undefined

-----------------------------------------------------------------------------
(* The order of the triggered rules *)

\* the position of a rule in RISK_RULES
DeclarationIndex(r) == CHOOSE i \in 1..Len(RISK_RULES) : RISK_RULES[i] = r

SeverityRank(sev) ==
  IF sev = "critical" THEN 0 ELSE IF sev = "high" THEN 1
  ELSE IF sev = "medium" THEN 2 ELSE 3

\* q comes before r: more severe, or as severe and declared earlier
ComesBefore(q, r) ==
  \/ SeverityRank(q.severity) < SeverityRank(r.severity)
  \/ /\ q.severity = r.severity
     /\ DeclarationIndex(q) < DeclarationIndex(r)

\* the triggered rule with i - 1 triggered rules before it
RuleAt(i) ==
  CHOOSE r \in TriggeredSet : Cardinality({q \in TriggeredSet : ComesBefore(q, r)}) = i - 1

TopCount == IF Cardinality(TriggeredSet) <= 3 THEN Cardinality(TriggeredSet) ELSE 3

\* C19: the triggered rules are ordered by severity (critical, high, medium,
\* low), rules of equal severity in their declaration order in RISK_RULES;
\* topRisks and topLevers are the risk and lever texts of the first three
\* rules of that order, so they have the same length, at most 3, and entry i
\* of both comes from the same rule.
C19_TopThreeBySeverity ==
  Decided =>
    /\ Len(Get(decision).topRisks) = TopCount
    /\ Len(Get(decision).topLevers) = TopCount
    /\ \A i \in 1..TopCount :
         /\ Get(decision).topRisks[i] = RuleAt(i).id
         /\ Get(decision).topLevers[i] = RuleAt(i).id

\* more than three rules triggered, a critical one declared after a high one,
\* and two rules of one severity among the first three
C19_Witness ==
  /\ Decided
  /\ Cardinality(TriggeredSet) > 3
  /\ \E q, r \in TriggeredSet :
       /\ q.severity = "critical" /\ r.severity = "high"
       /\ DeclarationIndex(r) < DeclarationIndex(q)
  /\ RuleAt(2).severity = RuleAt(3).severity

-----------------------------------------------------------------------------
(* The order of the matching steps *)

\* the step of the claim that decides for a normalized text, and its sector:
\* 1 a canonical identifier, 2 a synonym key, 3 the first synonym key in table
\* order that the text contains or that contains the text, 4 the fallback
ClaimedStep(n) ==
  IF \E i \in 1..Len(ALLOWED_SECTORS) : ALLOWED_SECTORS[i].text = n THEN 1
  ELSE IF \E i \in 1..Len(SECTOR_SYNONYMS) : SECTOR_SYNONYMS[i].key = n THEN 2
  ELSE IF \E i \in 1..Len(SECTOR_SYNONYMS) :
            Includes(n, SECTOR_SYNONYMS[i].key) \/ Includes(SECTOR_SYNONYMS[i].key, n)
    THEN 3
  ELSE 4

FirstIndex(S) == CHOOSE i \in S : \A j \in S : i <= j

ClaimedSector(n) ==
  LET step == ClaimedStep(n)
  IN  IF step = 1
        THEN ALLOWED_SECTORS[CHOOSE i \in 1..Len(ALLOWED_SECTORS) :
                               ALLOWED_SECTORS[i].text = n].id
      ELSE IF step = 2
        THEN SECTOR_SYNONYMS[FirstIndex({i \in 1..Len(SECTOR_SYNONYMS) :
                                           SECTOR_SYNONYMS[i].key = n})].sector
      ELSE IF step = 3
        THEN SECTOR_SYNONYMS[FirstIndex({i \in 1..Len(SECTOR_SYNONYMS) :
               Includes(n, SECTOR_SYNONYMS[i].key)
                 \/ Includes(SECTOR_SYNONYMS[i].key, n)})].sector
      ELSE "autre"

\* the text given is not empty or blank, so the matching steps are run
StepsRun == rawValue # undefined /\ trim(Get(rawValue)) # <<>>

\* C20: validateAndMapSector tries the matching steps in a fixed order and the
\* first that succeeds decides: the normalized text equal to a canonical
\* identifier, then equal to a synonym key, then the first synonym key in
\* table order that the text contains or that contains the text, then the
\* fallback 'autre'; a later step never overrides an earlier one.
C20_MatchingStepOrder ==
  (Validated /\ StepsRun) =>
    LET n == normalizeForSectorMatch(Get(rawValue))
    IN  /\ Get(sectorResult).canonicalSector = ClaimedSector(n)
        /\ Get(sectorResult).isFallback = (ClaimedStep(n) = 4)

-----------------------------------------------------------------------------
(* The benchmark table *)

MetricNames == {"marge_brute", "ca_etp", "charges_rh", "digital_pct", "fidelisation"}

\* the three thresholds of a metric are strictly ordered, downwards for the
\* inverse-ratio metric charges_rh and upwards for the others
ThresholdsOrdered(name, metric) ==
  LET t == metric.thresholds
  IN  IF name = "charges_rh"
        THEN metric.unit = "ratio_inverse" /\ t.crit > t.bon /\ t.bon > t.excellent
        ELSE /\ metric.unit \in {"ratio", "amount", "percentage"}
             /\ t.crit < t.bon /\ t.bon < t.excellent

\* C21: for every sector, variant and metric of the benchmark table the three
\* thresholds are strictly ordered: critical < good < excellent for metrics
\* of unit ratio, amount and percentage, and critical > good > excellent for
\* the inverse-ratio metric charges_rh; so are the metrics a lookup returns.
C21_ThresholdsOrdered ==
  /\ \A secteur \in SectorNames :
       \A i \in 1..Len(SectorOf(secteur).variants) :
         \A name \in MetricNames :
           ThresholdsOrdered(name, SectorOf(secteur).variants[i].metrics[name])
  /\ (LookedUp /\ Get(lookupResult).metrics # undefined) =>
       \A name \in MetricNames :
         ThresholdsOrdered(name, Get(Get(lookupResult).metrics)[name])

\* a lookup has returned the metrics of a variant that is not the default of
\* its sector
C21_Witness ==
  /\ LookedUp
  /\ Get(lookupResult).metrics # undefined
  /\ Get(lookup).variant # undefined
  /\ Get(lookup).variant # Some(SectorOf(Get(lookup).secteur).default_variant)

\* the condition of a scenario type, read from the props of the module
Fires(type) ==
  LET s == Get(moduleProps).scores
      hr == normalizeToV2(Get(moduleProps).auditData).hr
      turnover == IF hr = undefined THEN 0 ELSE Coalesce(Get(hr).turnoverRatePercent, 0)
      absenteisme == IF hr = undefined THEN 0 ELSE Coalesce(Get(hr).absenteeismRatePercent, 0)
  IN  CASE type = "TRESORERIE" -> s.global < 600
        [] type = "RENTABILITE" -> s.financier > 750 \/ s.financier < 500
        [] type = "ACTIVITE" -> s.operationnel < 600
        [] type = "COMMERCIAL" -> s.commercial < 600
        [] type = "RH" -> turnover > 15 \/ absenteisme > 5

FixedOrder == <<"TRESORERIE", "RENTABILITE", "ACTIVITE", "COMMERCIAL", "RH">>

\* C22: getPrioritizedScenarios returns the fixed order TRESORERIE, RENTABILITE,
\* ACTIVITE, COMMERCIAL, RH when no condition fires; otherwise it returns
\* exactly the types whose condition fired, each once, in the fixed order; the
\* list is never empty, and TRESORERIE is first whenever global < 60
C22_PrioritizedScenarios ==
  moduleProps # <<>> =>
    /\ prioritized # <<>>
    /\ (\A i \in 1..Len(FixedOrder) : ~Fires(FixedOrder[i])) => prioritized = FixedOrder
    /\ (\E i \in 1..Len(FixedOrder) : Fires(FixedOrder[i]))
         => prioritized = SelectSeq(FixedOrder, Fires)
    /\ Get(moduleProps).scores.global < 600 => prioritized[1] = "TRESORERIE"

\* three conditions fired, the HR one among them, and TRESORERIE did not
C22_Witness ==
  /\ moduleProps # <<>>
  /\ prioritized = <<"RENTABILITE", "COMMERCIAL", "RH">>
  /\ Get(moduleProps).scores.financier = 751

OnePerType(list) ==
  /\ Len(list) <= 5
  /\ \A i, j \in 1..Len(list) : i # j => list[i].type # list[j].type

OfOtherTypes(list, type) == {r \in Range(list) : r.type # type}

\* what a click on the simulate button does to the list
SimulateStep(type, inputs) ==
  (moduleProps # <<>> /\ onSimulate(type, inputs)) =>
    LET result == runSimulation(type, normalizedData, inputs)
    IN  IF result = undefined THEN results' = results
        ELSE /\ withId(Get(result), type, now) \in Range(results')
             /\ OfOtherTypes(results', type) = OfOtherTypes(results, type)

\* what a click on the remove button does to the list
RemoveStep(id) ==
  (moduleProps # <<>> /\ handleRemove(id)) =>
    /\ Range(results') = {r \in Range(results) : r.id # id}
    /\ Len(results') = Cardinality(Range(results'))

\* C30: the results list of SimulationModule holds at most one result per
\* scenario type, so at most five; a successful simulation replaces the
\* earlier result of its type and keeps the others, a simulation that returns
\* null leaves the list unchanged, and a removal removes only the result with
\* the given id
C30_OneResultPerType ==
  [][/\ OnePerType(results')
     /\ \A type \in SimulationTypes :
          \A inputs \in SelectorInputs(type) : SimulateStep(type, inputs)
     /\ \A i \in 1..Len(results) : RemoveStep(results[i].id)]_vars

\* all five types have a result, one of them from a later simulation than
\* another
C30_Witness ==
  /\ Len(results) = 5
  /\ \E i, j \in 1..Len(results) : results[i].id[2] = 0 /\ results[j].id[2] = 1

\* the fields the ten checks report, in rule order
CheckFields ==
  <<"cogsPercent", "netMarginPercent", "costs", "occupancyRatePercent",
    "absenteeismRatePercent", "turnoverRatePercent", "returnRatePercent",
    "cashRunwayMonths", "nps", "csatPercent">>

\* the optional value a check reads, for the checks that read one
CheckedOptional(field, v2) ==
  CASE field = "cogsPercent" -> v2.costs.cogsPercent
    [] field = "netMarginPercent" -> v2.finance.netMarginPercent
    [] field = "absenteeismRatePercent" -> hrAbsenteeism(v2)
    [] field = "turnoverRatePercent" -> hrTurnover(v2)
    [] field = "returnRatePercent" -> qualityReturnRate(v2)
    [] field = "cashRunwayMonths" -> v2.finance.cashRunwayMonths
    [] field = "nps" -> satisfactionNps(v2)
    [] field = "csatPercent" -> satisfactionCsat(v2)

OptionalCheckFields == Range(CheckFields) \ {"costs", "occupancyRatePercent"}

\* the condition of a check on a value that is present
CheckCondition(field, v2) ==
  LET value == Get(CheckedOptional(field, v2))
      gross == v2.finance.grossMarginPercent
  IN  CASE field = "cogsPercent" -> gross + value - 100 > 8 \/ 100 - gross - value > 8
        [] field = "netMarginPercent" -> value > gross
        [] field = "absenteeismRatePercent" -> value > 15
        [] field = "turnoverRatePercent" -> value > 40
        [] field = "returnRatePercent" -> value > 10
        [] field = "cashRunwayMonths" -> value < 3
        [] field = "nps" -> value < 0
        [] field = "csatPercent" -> value < 70

CheckHolds(field, v2) ==
  CASE field = "costs" ->
         v2.costs.hrCostsPercent + Coalesce(v2.costs.cogsPercent, 0)
           + Coalesce(v2.costs.fixedCostsPercent, 0) > 115
    [] field = "occupancyRatePercent" -> v2.ops.occupancyRatePercent > 95
    [] OTHER -> CheckedOptional(field, v2) # undefined /\ CheckCondition(field, v2)

CriticalChecks == {"absenteeismRatePercent", "turnoverRatePercent", "cashRunwayMonths"}

WarnedFields == [i \in 1..Len(warnings) |-> warnings[i].field]

\* C23: getAuditWarnings returns one warning for each of its ten checks whose
\* condition holds and none for the others, in rule order (cogs, net margin,
\* total costs, occupancy, absenteeism, turnover, return rate, runway, NPS,
\* CSAT); the severity is critical exactly for the absenteeism, turnover and
\* runway checks, and a check on an absent optional field does not fire
C23_IndependentChecks ==
  Decided =>
    /\ WarnedFields = SelectSeq(CheckFields, LAMBDA f : CheckHolds(f, formData))
    /\ \A i \in 1..Len(warnings) :
         warnings[i].type = "critical" <=> warnings[i].field \in CriticalChecks
    /\ \A f \in OptionalCheckFields :
         CheckedOptional(f, formData) = undefined => f \notin Range(WarnedFields)

\* several warnings are returned together, critical and not, while other
\* checks read an absent field
C23_Witness ==
  /\ Decided
  /\ Len(warnings) >= 3
  /\ \E i, j \in 1..Len(warnings) : warnings[i].type = "critical" /\ warnings[j].type = "warning"
  /\ \E f \in OptionalCheckFields : CheckedOptional(f, formData) = undefined

\* other values of the warnings argument
OtherWarningLists ==
  {<<>>,
   <<Warning("critical", "cashRunwayMonths")>>,
   <<Warning("warning", "nps"), Warning("critical", "turnoverRatePercent")>>,
   <<Warning("warning", "costs"), Warning("warning", "csatPercent")>>}

\* C24: the output of computeDecisionOutput does not depend on its warnings
\* argument: for a record and scores, every warning list gives the same
\* priority level, the same four lists and the same summary
C24_WarningsIgnored ==
  Decided =>
    \A w \in OtherWarningLists :
      computeDecisionOutput(formData, Get(scoresArg), w) = Get(decision)

\* a decision computed with warnings, none of them critical, and a priority
\* below CRITIQUE
C24_Witness ==
  /\ Decided
  /\ warnings # <<>>
  /\ \A i \in 1..Len(warnings) : warnings[i].type = "warning"
  /\ Get(decision).priorityLevel \in {"FAIBLE", "MODE'RE'"}

HasCriticalWarning == \E i \in 1..Len(warnings) : warnings[i].type = "critical"

\* C25: whenever getAuditWarnings returns a warning of severity critical,
\* computeDecisionOutput on the same record returns the priority CRITIQUE,
\* whatever the scores
C25_CriticalAgreement ==
  (Decided /\ HasCriticalWarning) => Get(decision).priorityLevel = "CRITIQUE"

\* the only critical warning is an HR one, and the scores are the best
C25_Witness ==
  /\ Decided
  /\ HasCriticalWarning
  /\ \A i \in 1..Len(warnings) : warnings[i].field # "cashRunwayMonths"
  /\ Get(scoresArg).global = 1000
  /\ Get(decision).priorityLevel = "CRITIQUE"

\* exactly one field of the hr object, or of the quality object, is present
OnlyAbsenteeism ==
  /\ formData.hr # undefined
  /\ hrAbsenteeism(formData) # undefined
  /\ hrTurnover(formData) = undefined

OnlyTurnover ==
  /\ formData.hr # undefined
  /\ hrTurnover(formData) # undefined
  /\ hrAbsenteeism(formData) = undefined

OnlyIncidents ==
  /\ formData.ops.quality # undefined
  /\ qualityIncidents(formData) # undefined
  /\ qualityReturnRate(formData) = undefined

\* C26: when exactly one sub-field of an optional group is present, the score
\* of the group is the tier score of that sub-field: HR stability with only
\* the absenteeism rate is the absenteeism score, with only the turnover rate
\* the turnover score, and quality with only the incidents is the incidents
\* score; nothing is averaged unless both sub-fields are present
C26_SingleSubFieldScore ==
  Scored =>
    /\ OnlyAbsenteeism =>
         hrStabilityOf(Get(formData.hr)) = RInt(absScoreOf(Get(hrAbsenteeism(formData))))
    /\ OnlyTurnover =>
         hrStabilityOf(Get(formData.hr)) = RInt(turnoverScoreOf(Get(hrTurnover(formData))))
    /\ OnlyIncidents =>
         qualityScoreOf(Get(formData.ops.quality))
           = RInt(incidentScoreOf(Get(qualityIncidents(formData))))

\* C27: isPdfGenerating is true in every state in which a downloadPdf or
\* sendPdfEmail request is still awaited, under every interleaving of the
\* context's operations and the Ctrl+P shortcut, and at most one report
\* request is awaited at any time
C27_FlagCoversRequests ==
  /\ requests # <<>> => auditState.isPdfGenerating
  /\ Len(requests) <= 1


\* the stored entries younger than 24 hours
YoungEntries == {i \in 1..Len(importHistory) : now - importHistory[i].timestamp < DUPLICATE_WINDOW_MS}

\* C28: after any sequence of validations and imports in the JSON and Excel
\* panels, the stored import history never holds more than
\* MAX_IMPORTS_PER_24H = 3 entries younger than 24 hours
C28_ImportLimit == Cardinality(YoungEntries) <= MAX_IMPORTS_PER_24H

\* C29: the stored import history never holds two entries younger than 24
\* hours with the same hash, whatever the validations and the clicks on the
\* import buttons
C29_NoDuplicateHash ==
  \A i, j \in YoungEntries : i # j => importHistory[i].hash # importHistory[j].hash
=============================================================================
